---- MODULE Spec2Model ----
(***************************************************************************)
(* Monitor360 backend (src/backend/main.py): the sensor execution engine.  *)
(*                                                                         *)
(* The module holds the process-wide state of main.py and one action per   *)
(* step a coroutine takes between two suspension points (await).  The     *)
(* specifications share the state:                                         *)
(*   SpecFan    ConnectionManager (event fan-out)                          *)
(*   SpecAlert  check_and_trigger_alerts (alert evaluator)                 *)
(*   SpecSched  running_tasks, launch/restart/update/delete, the workers   *)
(*   SpecStamp  the workers' sample writes while time passes               *)
(*   SpecVpn    VPN_STATE, ensure_vpn_up / release_vpn and their callers   *)
(*   SpecProbe  the cycles of a ping and an ethernet worker of one device, *)
(*              connection_pools and the samples they write                *)
(*   SpecRules  the alert rules on every sample and alert list             *)
(*   SpecRelaunch  the evaluator when its worker is cancelled and started  *)
(*              again                                                      *)
(*   SpecTest   ensure_vpn_up / release_vpn called by                      *)
(*              test_device_reachability requests                          *)
(*   SpecParse  one ping cycle, from the reply of /ping to result_data     *)
(*   SpecWs     websocket_endpoint: handshake, client messages, batches    *)
(*   SpecDown   shutdown() and teardown_all_vpns while workers start       *)
(*   SpecProfiles  create / update / delete of VPN profiles and            *)
(*              associate_vpn_to_maestro, on the tables                    *)
(*   SpecOwner  create_monitor, add_sensor_to_monitor, update_sensor       *)
(***************************************************************************)
EXTENDS Integers, Sequences, FiniteSets, TLC

(***************************************************************************)
(* Bounds                                                                  *)
(***************************************************************************)
MaxSinks == 2
MaxPubs == 1
MaxTime == 2
MaxFires == 2
MaxWorkers == 2
MaxLaunches == 2
MaxSamples == 2
MaxOpenPools == 2
\* longest avg-rtt value enumerated character by character
MaxRttLen == 3
\* websockets that go through websocket_endpoint, and client messages each
\* of them sends
MaxConns == 1
MaxMsgs == 2
\* rows of vpn_profiles_table, monitors_table and sensors_table ever
\* inserted, and requests in progress at a time
MaxVpns == 2
MaxMonitors == 2
MaxSensorRows == 2
MaxReqs == 2

(***************************************************************************)
(* Data                                                                    *)
(***************************************************************************)
\* Tenant identities are JWT subjects (main.py:185-206).
Tenants == {"u1", "u2"}
SensorIds == {1, 2}
\* owner of the device a sensor belongs to (device_info["owner_id"], main.py:922)
SensorOwner == (1 :> "u1") @@ (2 :> "u2")

\* sensors_table.sensor_type
SensorType == (1 :> "ping") @@ (2 :> "ethernet")

\* sensors_table.config["alerts"] of the two sensors; cooldown_minutes in
\* minutes, threshold_mbps in Mbps
NoAlertField == 0
AlertRule(type, channel, cooldown, thr_ms, thr_mbps, dir) ==
    [type |-> type, channel_id |-> channel, cooldown_minutes |-> cooldown,
     threshold_ms |-> thr_ms, threshold_mbps |-> thr_mbps, direction |-> dir]
AlertConfigs ==
    (1 :> << AlertRule("high_latency", 7, 2, 40, NoAlertField, "any"),
             AlertRule("timeout", 7, 1, NoAlertField, NoAlertField, "any") >>)
 @@ (2 :> << AlertRule("speed_change", 8, 2, NoAlertField, NoAlertField, "any"),
             AlertRule("traffic_threshold", 8, 1, NoAlertField, 1, "any") >>)
\* notification_channels_table: owner_id of the rows; 9 is the id of no row
ChannelOwner == (7 :> "u1") @@ (8 :> "u2")
ChannelIds == {7, 8, 9}
\* the keys (sensor_id, alert["type"]) of last_alert_times
AlertKeys ==
    UNION {{<<s, AlertConfigs[s][j].type>> : j \in 1..Len(AlertConfigs[s])} : s \in SensorIds}

\* result_data of a cycle.  latency_ms None is NoLatency, a result without
\* the key "speed" has NoSpeed, bitrates are the integers that int() reads
\* from the digit strings.
NoLatency == -1
NoSpeed == "None"
PingResult(st, lat) ==
    [status |-> st, latency_ms |-> lat, hasSpeed |-> FALSE, speed |-> NoSpeed,
     rx_bitrate |-> 0, tx_bitrate |-> 0]
EthResult(st, sp, rx, tx) ==
    [status |-> st, latency_ms |-> 0, hasSpeed |-> TRUE, speed |-> sp,
     rx_bitrate |-> rx, tx_bitrate |-> tx]
\* what run_ping_monitor / run_ethernet_monitor hand to the evaluator
ResultsOf(s) ==
    IF SensorType[s] = "ping"
    THEN {PingResult("ok", 30), PingResult("ok", 60), PingResult("high_latency", 200),
          PingResult("timeout", 9999), PingResult("timeout", NoLatency)}
    ELSE {EthResult("link_up", "1Gbps", 0, 0), EthResult("link_up", "100Mbps", 2000000, 0),
          EthResult("link_down", "N/A", 0, 0)}

NoTime == -1
NoResult == PingResult("pending", NoLatency)
\* a call of check_and_trigger_alerts and its locals; when no call is in
\* progress, they are those of the call if it was the last one to return
IdleEval == [pc |-> "idle", now |-> 0, i |-> 0, result |-> NoResult, alerts |-> << >>]
\* sensor_config.get("alerts", []) as the sensor's config has it: no
\* alerts, or the alerts of AlertConfigs
AlertLists(s) == {<< >>, AlertConfigs[s]}
\* alert lists and samples around the thresholds, and alerts whose
\* channel_id names the channel of another tenant or no channel
TimeoutVia(c) == << AlertRule("timeout", c, 1, NoAlertField, NoAlertField, "any") >>
TrafficOf(dir) == << AlertRule("traffic_threshold", 8, 1, NoAlertField, 1, dir) >>
RuleLists(s) ==
    IF SensorType[s] = "ping"
    THEN {AlertConfigs[s], TimeoutVia(8), TimeoutVia(9)}
    ELSE {AlertConfigs[s], TrafficOf("rx"), TrafficOf("tx")}
RuleResults(s) ==
    IF SensorType[s] = "ping"
    THEN ResultsOf(s) \cup {PingResult("ok", 40)}
    ELSE ResultsOf(s) \cup {EthResult("link_up", "1Gbps", 0, 2000000),
                            EthResult("link_up", "1Gbps", 1000000, 1000000)}

\* vpn_profiles_table rows; 0 stands for vpn_profile_id None
Profiles == {1, 2}
NoProfile == 0
\* devices_table.ip_address of the device the sensors are on
DeviceIp == "10.0.0.1"

TaskIds == 1..MaxWorkers
LaunchIds == 1..MaxLaunches
NoTask == 0
NoObj == 0
\* sid of a task that is a test_device_reachability request, not a worker
NoSensor == 0
\* the dict objects VPN_STATE can hold or an ensure_vpn_up call can still
\* refer to
ObjIds == 1..(MaxWorkers + 2)

\* sensors_table.config as far as run_ping_monitor reads it before its loop
Configs == {"good", "no_target", "no_maestro"}

\* a worker task (run_ping_monitor / run_ethernet_monitor) and its locals
NewTask == [sid |-> 0, pc |-> "none", cancelled |-> FALSE, cfg |-> "good",
            pid |-> NoProfile, st |-> NoObj, acquired |-> FALSE, releases |-> 0,
            ts |-> 0, pre |-> 0, clean |-> TRUE, post |-> 0, postUp |-> FALSE,
            result_data |-> NoResult, probe |-> "", exc |-> FALSE, moved |-> FALSE,
            cycle |-> << >>]
\* a launch_sensor_task task and its locals
NewLaunch == [sid |-> 0, pc |-> "none", row |-> FALSE, cfg |-> "good", pid |-> NoProfile]
VpnDict(rc, up) == [refcount |-> rc, up |-> up]

Sinks == 1..MaxSinks
PubIds == 1..MaxPubs

\* (str(owner_id) if owner_id is not None else "").strip().lower()
\* (main.py:667, main.py:689), tabulated on the spellings used here.
LowerStrip == ("U1" :> "u1") @@ (" u1" :> "u1") @@ ("U2" :> "u2") @@ ("None" :> "")
Norm(t) == IF t \in DOMAIN LowerStrip THEN LowerStrip[t] ELSE t

\* websocket.scope["subs"]: None (subscribe_all) or a set of sensor ids
SubNone == [none |-> TRUE, ids |-> {}]
SubSet(ids) == [none |-> FALSE, ids |-> ids]

NoItem == <<0, "">>
IdlePub == [pc |-> "idle", owner |-> "", target |-> "", sid |-> 0, todo |-> {},
            cur |-> NoItem, sent |-> 0, ranFb |-> FALSE,
            matchAtStart |-> {}, subscribed |-> {}, stayed |-> {},
            steady |-> {}, errs |-> {}]

VARIABLES
    \* ---- ConnectionManager (fan-out) ----
    active,        \* manager.active: set of <<ws, oid>>
    subs,          \* ws.scope["subs"] of every websocket
    wsState,       \* "new" | "open" | "closed" per websocket
    sinkTenant,    \* tenant the websocket authenticated as
    pubs,          \* the broadcast_for calls
    sentTo,        \* history: sends of call p to sink k in the owner pass
    fbTo,          \* history: sends of call p to sink k in the fallback pass
    \* ---- alert evaluator ----
    clock,                 \* datetime.now(timezone.utc), in minutes
    last_alert_times,      \* (sensor_id, alert type) -> time of the last fire
    last_known_statuses,   \* sensor_id -> last speed
    ev,                    \* the check_and_trigger_alerts call of each sensor
    notified,              \* history: messages send_notification sent, by key
    dispatched,            \* history: <<sensor_id, channel_id>> of the messages sent
    alert_history,         \* rows of alert_history_table, by key
    \* ---- store ----
    sensors,               \* sensors_table: "absent" | "present" | "deleted" per id
    sensor_cfg,            \* sensors_table.config
    monitor_row,           \* monitors_table holds the monitor of the device
    device_row,            \* devices_table holds the device
    device_vpn,            \* devices_table.vpn_profile_id of the device
    samples,               \* ping_results / ethernet_results rows per sensor
    \* ---- scheduler ----
    started,               \* startup() has run
    running_tasks,         \* sensor_id -> task
    tasks,                 \* the worker tasks ever created
    launches,              \* the launch_sensor_task tasks ever created
    delPending,            \* delete_sensor calls between their delete and their cancel
    delReturned,           \* history: a delete_sensor call on the sensor has returned
    monDelPending,         \* delete_monitor_and_sensors between its cancels and its delete
    connection_pools,      \* ips with a pooled RouterOS session
    open_pools,            \* history: RouterOsApiPool objects created and not disconnected
    \* ---- WireGuard ----
    VPN_STATE,             \* profile_id -> dict object
    vpnObj,                \* the dict objects: refcount, up
    ifaceUp,               \* the interface m360-p<id> exists and is UP
    reach,                 \* what the device and the ping target do when probed
    \* ---- websocket_endpoint ----
    conn,                  \* the websocket_endpoint call of every websocket
    outbox,                \* history: what websocket_endpoint sent, in order
    \* ---- one ping cycle ----
    ping_call,             \* the reply of the /ping call and what the cycle makes of it
    \* ---- shutdown ----
    shutdown_call,         \* the shutdown() call and its teardown_all_vpns loop
    \* ---- tables behind the profile, monitor and sensor requests ----
    vpn_profiles,          \* vpn_profiles_table
    devices,               \* devices_table
    monitors,              \* monitors_table
    sensor_rows,           \* sensors_table
    req                    \* the requests in progress and their last reply

fanVars == <<active, subs, wsState, sinkTenant, pubs, sentTo, fbTo>>
alertVars == <<clock, last_alert_times, last_known_statuses, ev, notified, dispatched,
               alert_history>>
storeVars == <<sensors, sensor_cfg, monitor_row, device_row, device_vpn, samples>>
schedVars == <<started, running_tasks, tasks, launches, delPending, delReturned,
               monDelPending, connection_pools, open_pools>>
vpnVars == <<VPN_STATE, vpnObj, ifaceUp, reach>>
wsVars == <<conn, outbox>>
pingVars == <<ping_call>>
downVars == <<shutdown_call>>
apiVars == <<vpn_profiles, devices, monitors, sensor_rows, req>>
evalVars == <<last_alert_times, last_known_statuses, ev, notified, dispatched,
              alert_history>>
vars == <<active, subs, wsState, sinkTenant, pubs, sentTo, fbTo,
          clock, last_alert_times, last_known_statuses, ev, notified, dispatched,
          alert_history,
          sensors, sensor_cfg, monitor_row, device_row, device_vpn, samples,
          started, running_tasks, tasks, launches, delPending, delReturned,
          monDelPending, connection_pools, open_pools, VPN_STATE, vpnObj, ifaceUp, reach,
          conn, outbox, ping_call, shutdown_call,
          vpn_profiles, devices, monitors, sensor_rows, req>>

\* ids of the tables; a deleted row leaves its id unused ("gone")
VpnIds == 1..MaxVpns
DevIds == {1, 2}
MonIds == 1..MaxMonitors
RowIds == 1..MaxSensorRows
ReqIds == 1..MaxReqs
\* devices_table.owner_id of the two devices
DevOwner == (1 :> "u1") @@ (2 :> "u2")
NoVpn == [row |-> "none", owner_id |-> "", is_default |-> FALSE]
NoMonitor == [row |-> "none", owner_id |-> "", device_id |-> 0]
NoSensorRow == [row |-> "none", owner_id |-> "", monitor_id |-> 0, name |-> "", by |-> ""]
NoReq == [op |-> "", pc |-> "idle", owner_id |-> "", id |-> 0, arg |-> 0, status |-> 0]
InitApi ==
    /\ vpn_profiles = [p \in VpnIds |-> NoVpn]
    /\ devices = [d \in DevIds |-> [row |-> "row", owner_id |-> DevOwner[d], vpn_profile_id |-> NoProfile]]
    /\ monitors = [m \in MonIds |-> NoMonitor]
    /\ sensor_rows = [s \in RowIds |-> NoSensorRow]
    /\ req = [i \in ReqIds |-> NoReq]

\* shutdown() has not been called
NoShutdown == [pc |-> "none", items |-> << >>, issued |-> {}]
InitDown == shutdown_call = NoShutdown

(***************************************************************************)
(* ConnectionManager                                                       *)
(***************************************************************************)
InitFan ==
    /\ active = {}
    /\ subs = [k \in Sinks |-> SubSet({})]
    /\ wsState = [k \in Sinks |-> "new"]
    /\ sinkTenant = [k \in Sinks |-> ""]
    /\ pubs = [p \in PubIds |-> IdlePub]
    /\ sentTo = [p \in PubIds |-> [k \in Sinks |-> 0]]
    /\ fbTo = [p \in PubIds |-> [k \in Sinks |-> 0]]

InCall(p) == pubs[p].pc \in {"pass1", "fb"}

\* a websocket that leaves the registry or breaks is no longer one that
\* "stays connected" for the calls in progress
DropStayed(ps, k) ==
    [p \in PubIds |-> IF ps[p].pc \in {"pass1", "fb"}
                      THEN [ps[p] EXCEPT !.stayed = @ \ {k}] ELSE ps[p]]

\* a websocket whose subscription changes is no longer one whose
\* subscription is what it was when the calls made so far began
DropSteady(ps, k) ==
    [p \in PubIds |-> IF ps[p].pc # "idle"
                      THEN [ps[p] EXCEPT !.steady = @ \ {k}] ELSE ps[p]]

\* ConnectionManager.connect, called from websocket_endpoint; websockets
\* are numbered in the order they connect
Connect(k, t) ==
    /\ wsState[k] = "new"
    /\ \A j \in Sinks : j < k => wsState[j] # "new"
    /\ wsState' = [wsState EXCEPT ![k] = "open"]
    /\ sinkTenant' = [sinkTenant EXCEPT ![k] = t]
    /\ active' = active \cup {<<k, Norm(t)>>}
    /\ subs' = [subs EXCEPT ![k] = SubSet({})]
    /\ UNCHANGED <<pubs, sentTo, fbTo>>
    /\ UNCHANGED <<alertVars, storeVars, schedVars, vpnVars, wsVars, pingVars, downVars, apiVars>>

\* ConnectionManager.disconnect, from the finally of websocket_endpoint
Disconnect(k) ==
    /\ wsState[k] \in {"open", "closed"}
    /\ \E it \in active : it[1] = k
    /\ active' = {it \in active : it[1] # k}
    /\ wsState' = [wsState EXCEPT ![k] = "closed"]
    /\ pubs' = DropStayed(pubs, k)
    /\ UNCHANGED <<subs, sinkTenant, sentTo, fbTo>>
    /\ UNCHANGED <<alertVars, storeVars, schedVars, vpnVars, wsVars, pingVars, downVars, apiVars>>

\* websocket_endpoint, message subscribe_sensors with a list of ints
SubscribeSensors(k, ids) ==
    /\ wsState[k] = "open"
    /\ \E it \in active : it[1] = k
    /\ subs' = [subs EXCEPT ![k] = SubSet(ids)]
    /\ pubs' = IF subs[k] = SubSet(ids) THEN pubs ELSE DropSteady(pubs, k)
    /\ UNCHANGED <<active, wsState, sinkTenant, sentTo, fbTo>>
    /\ UNCHANGED <<alertVars, storeVars, schedVars, vpnVars, wsVars, pingVars, downVars, apiVars>>

\* websocket_endpoint, message subscribe_all (and subscribe_sensors with a
\* malformed list): subs = None
SubscribeAll(k) ==
    /\ wsState[k] = "open"
    /\ \E it \in active : it[1] = k
    /\ subs' = [subs EXCEPT ![k] = SubNone]
    /\ pubs' = IF subs[k] = SubNone THEN pubs ELSE DropSteady(pubs, k)
    /\ UNCHANGED <<active, wsState, sinkTenant, sentTo, fbTo>>
    /\ UNCHANGED <<alertVars, storeVars, schedVars, vpnVars, wsVars, pingVars, downVars, apiVars>>

\* the test of the fallback loop:
\* subs is None or (isinstance(subs, set) and (len(subs) == 0 or sid in subs))
FallbackMatchAll(sb, sid) == TRUE
FallbackMatch(sb, sid) == sb.none \/ sb.ids = {} \/ sid \in sb.ids

\* the test of the owner loop: if oid != target: continue
OwnerMatchAny(oid, target) == TRUE
OwnerMatch(oid, target) == oid = target

\* the fallback guard: if sent == 0
FallbackGuardAlways(sent) == TRUE
FallbackGuard(sent) == sent = 0

\* self.active.remove((ws, oid)) inside try/except
RemoveSinkNot(act, item) == act
RemoveSink(act, item) == act \ {item}

PubDone(r) == [r EXCEPT !.pc = "done", !.todo = {}, !.cur = NoItem]

\* broadcast_for runs from its locals r (as they are after the previous
\* await) to its next await ws.send_text, or to its end; ps is the table of
\* calls and act is manager.active at that moment.  Items whose test fails
\* are passed over without suspending.
ContinueFb(p, ps, r, act) ==
    LET el == {it \in r.todo : FallbackMatch(subs[it[1]], r.sid)}
        ne == r.todo \ el
    IN  IF el = {}
        THEN pubs' = [ps EXCEPT ![p] = PubDone(r)]
        ELSE \E it \in el, skipped \in SUBSET ne :
               pubs' = [ps EXCEPT ![p] =
                          [r EXCEPT !.cur = it, !.todo = r.todo \ ({it} \cup skipped)]]

ContinueOwner(p, ps, r, act) ==
    LET el == {it \in r.todo : OwnerMatch(it[2], r.target)}
    IN  IF el # {}
        THEN \E it \in el :
               pubs' = [ps EXCEPT ![p] = [r EXCEPT !.cur = it, !.todo = el \ {it}]]
        ELSE IF FallbackGuard(r.sent)
             THEN ContinueFb(p, ps, [r EXCEPT !.pc = "fb", !.ranFb = TRUE,
                                              !.todo = act, !.cur = NoItem], act)
             ELSE pubs' = [ps EXCEPT ![p] = PubDone(r)]

\* broadcast_for(owner_id, message) is called with the sample event of
\* sensor sid and runs to its first await
PublishBegin(p, sid) ==
    /\ pubs[p].pc = "idle"
    /\ \A q \in PubIds : q < p => pubs[q].pc # "idle"
    /\ LET target == Norm(SensorOwner[sid])
           r == [IdlePub EXCEPT !.pc = "pass1",
                                !.owner = SensorOwner[sid], !.target = target,
                                !.sid = sid, !.todo = active,
                                !.matchAtStart = {it[1] : it \in {i \in active : i[2] = target}},
                                !.subscribed = {k \in Sinks : subs[k].none \/ sid \in subs[k].ids},
                                !.stayed = {it[1] : it \in {i \in active : wsState[i[1]] = "open"}},
                                !.steady = Sinks]
       IN ContinueOwner(p, pubs, r, active)
    /\ UNCHANGED <<active, subs, wsState, sinkTenant, sentTo, fbTo>>
    /\ UNCHANGED <<alertVars, storeVars, schedVars, vpnVars, wsVars, pingVars, downVars, apiVars>>

\* await ws.send_text(message) returns: sent += 1 (sent_fb += 1 in the
\* fallback), and the loop goes on
SendOk(p) ==
    /\ InCall(p)
    /\ pubs[p].cur # NoItem
    /\ LET k == pubs[p].cur[1]
       IN /\ wsState[k] = "open"
          /\ IF pubs[p].pc = "pass1"
             THEN /\ sentTo' = [sentTo EXCEPT ![p][k] = @ + 1]
                  /\ fbTo' = fbTo
                  /\ ContinueOwner(p, pubs, [pubs[p] EXCEPT !.sent = @ + 1, !.cur = NoItem], active)
             ELSE /\ fbTo' = [fbTo EXCEPT ![p][k] = @ + 1]
                  /\ sentTo' = sentTo
                  /\ ContinueFb(p, pubs, [pubs[p] EXCEPT !.cur = NoItem], active)
    /\ UNCHANGED <<active, subs, wsState, sinkTenant>>
    /\ UNCHANGED <<alertVars, storeVars, schedVars, vpnVars, wsVars, pingVars, downVars, apiVars>>

\* await ws.send_text(message) raises: self.active.remove((ws, oid)), the
\* KeyError of an entry already removed is swallowed, and the loop goes on
SendRaises(p) ==
    /\ InCall(p)
    /\ pubs[p].cur # NoItem
    /\ LET k == pubs[p].cur[1]
           act == RemoveSink(active, pubs[p].cur)
           ps == DropStayed(pubs, k)
           r == [ps[p] EXCEPT !.cur = NoItem, !.errs = @ \cup {k}]
       IN /\ wsState' = [wsState EXCEPT ![k] = "closed"]
          /\ active' = act
          /\ IF pubs[p].pc = "pass1"
             THEN ContinueOwner(p, ps, r, act)
             ELSE ContinueFb(p, ps, r, act)
    /\ UNCHANGED <<subs, sinkTenant, sentTo, fbTo>>
    /\ UNCHANGED <<alertVars, storeVars, schedVars, vpnVars, wsVars, pingVars, downVars, apiVars>>

NextFan ==
    \/ \E k \in Sinks, t \in Tenants : Connect(k, t)
    \/ \E k \in Sinks : Disconnect(k)
    \/ \E k \in Sinks, ids \in SUBSET SensorIds : SubscribeSensors(k, ids)
    \/ \E k \in Sinks : SubscribeAll(k)
    \/ \E p \in PubIds, sid \in SensorIds : PublishBegin(p, sid)
    \/ \E p \in PubIds : SendOk(p)
    \/ \E p \in PubIds : SendRaises(p)

(***************************************************************************)
(* Alert evaluator: check_and_trigger_alerts                               *)
(***************************************************************************)
InitAlert ==
    /\ clock = 0
    /\ last_alert_times = [key \in AlertKeys |-> NoTime]
    /\ last_known_statuses = [s \in SensorIds |-> NoSpeed]
    /\ ev = [s \in SensorIds |-> IdleEval]
    /\ notified = [key \in AlertKeys |-> << >>]
    /\ dispatched = {}
    /\ alert_history = [key \in AlertKeys |-> 0]

\* if last_alert_time and (now - last_alert_time) < cooldown: continue
InCooldown(last, now, cooldown) == last # NoTime /\ (now - last) < cooldown

\* if last_speed is not None and current_speed != last_speed
SpeedChangedAny(last_speed, current_speed) == current_speed # last_speed
SpeedChanged(last_speed, current_speed) ==
    last_speed # NoSpeed /\ current_speed # last_speed

\* result.get("latency_ms", 0) > alert.get("threshold_ms", 0)
LatencyOverOrEqual(latency_ms, threshold_ms) == latency_ms >= threshold_ms
LatencyOver(latency_ms, threshold_ms) == latency_ms > threshold_ms

\* rx_bps > threshold_bps, threshold_bps = float(threshold_mbps) * 1_000_000
ExceedsOrEqual(bps, threshold_mbps) == bps >= threshold_mbps * 1000000
Exceeds(bps, threshold_mbps) == bps > threshold_mbps * 1000000

\* send_notification: the channel row with this id and this owner_id
ChannelFoundAny(channel_id, owner_id) == channel_id \in DOMAIN ChannelOwner
ChannelFound(channel_id, owner_id) ==
    channel_id \in DOMAIN ChannelOwner /\ ChannelOwner[channel_id] = owner_id

\* the if/elif chain that sets trigger for one alert
Trigger(alert, result, last_speed) ==
    CASE alert.type = "timeout" /\ result.status = "timeout" -> TRUE
      [] alert.type = "high_latency" /\ result.status = "ok" ->
            LatencyOver(result.latency_ms, alert.threshold_ms)
      [] alert.type = "speed_change" -> SpeedChanged(last_speed, result.speed)
      [] alert.type = "traffic_threshold" ->
            \/ alert.direction \in {"any", "rx"}
               /\ Exceeds(result.rx_bitrate, alert.threshold_mbps)
            \/ alert.direction \in {"any", "tx"}
               /\ Exceeds(result.tx_bitrate, alert.threshold_mbps)
      [] OTHER -> FALSE

\* does the loop stop at alert j of sensor s to notify
Fires(s, j, e, lat) ==
    LET alert == e.alerts[j]
    IN  /\ ~InCooldown(lat[<<s, alert.type>>], e.now, alert.cooldown_minutes)
        /\ Trigger(alert, e.result, last_known_statuses[s])

\* the call of sensor s returns; its sample, alerts and now stay on record
\* until the next call returns
Returned(s, e) ==
    [x \in SensorIds |->
        IF x = s THEN [e EXCEPT !.pc = "idle", !.i = 0]
        ELSE IF ev[x].pc = "idle" THEN IdleEval ELSE ev[x]]

\* the for loop goes on from alert i (with the locals e and last_alert_times
\* lat) to the next await send_notification; after the last alert the
\* speed of the result is recorded and the call returns
ContinueEval(s, e, i, lat) ==
    LET n == Len(e.alerts)
        hits == {j \in i..n : Fires(s, j, e, lat)}
    IN  IF hits # {}
        THEN /\ ev' = [ev EXCEPT ![s] =
                        [e EXCEPT !.pc = "notify",
                                  !.i = CHOOSE j \in hits : \A h \in hits : j <= h]]
             /\ UNCHANGED last_known_statuses
        ELSE /\ ev' = Returned(s, e)
             /\ last_known_statuses' =
                  IF e.result.hasSpeed
                  THEN [last_known_statuses EXCEPT ![s] = e.result.speed]
                  ELSE last_known_statuses

RECURSIVE SumLen(_, _)
SumLen(f, keys) ==
    IF keys = {} THEN 0
    ELSE LET key == CHOOSE x \in keys : TRUE
         IN  Len(f[key]) + SumLen(f, keys \ {key})
\* number of send_notification calls made so far
TotalNotified == SumLen(notified, AlertKeys)

\* a cycle of the worker of sensor s calls
\* check_and_trigger_alerts(sensor_id, name, result, device_info, config)
EvalBegin(s, result, alerts) ==
    /\ ev[s].pc = "idle"
    /\ TotalNotified < MaxFires
    /\ IF Len(alerts) = 0
       THEN /\ ev' = Returned(s, [IdleEval EXCEPT !.result = result])
            /\ UNCHANGED last_known_statuses
       ELSE ContinueEval(s, [IdleEval EXCEPT !.now = clock, !.result = result,
                                             !.alerts = alerts],
                         1, last_alert_times)
    /\ UNCHANGED <<clock, last_alert_times, notified, dispatched, alert_history>>
    /\ UNCHANGED <<fanVars, storeVars, schedVars, vpnVars, wsVars, pingVars, downVars, apiVars>>

\* await send_notification(...) returns; the message went to the channel if
\* a channel with the id and the owner of the device was found
NotifyDone(s) ==
    /\ ev[s].pc = "notify"
    /\ LET alert == ev[s].alerts[ev[s].i]
           key == <<s, alert.type>>
       IN IF ChannelFound(alert.channel_id, SensorOwner[s])
          THEN /\ notified' = [notified EXCEPT ![key] = Append(@, ev[s].now)]
               /\ dispatched' = dispatched \cup {<<s, alert.channel_id>>}
          ELSE UNCHANGED <<notified, dispatched>>
    /\ ev' = [ev EXCEPT ![s].pc = "insert"]
    /\ UNCHANGED <<clock, last_alert_times, last_known_statuses, alert_history>>
    /\ UNCHANGED <<fanVars, storeVars, schedVars, vpnVars, wsVars, pingVars, downVars, apiVars>>

\* await database.execute(alert_history_table.insert()) returns:
\* last_alert_times[alert_key] = now, and the loop goes on
InsertDone(s) ==
    /\ ev[s].pc = "insert"
    /\ ev[s].alerts[ev[s].i].channel_id \in DOMAIN ChannelOwner
    /\ LET key == <<s, ev[s].alerts[ev[s].i].type>>
           lat == [last_alert_times EXCEPT ![key] = ev[s].now]
       IN /\ alert_history' = [alert_history EXCEPT ![key] = @ + 1]
          /\ last_alert_times' = lat
          /\ ContinueEval(s, ev[s], ev[s].i + 1, lat)
    /\ UNCHANGED <<clock, notified, dispatched>>
    /\ UNCHANGED <<fanVars, storeVars, schedVars, vpnVars, wsVars, pingVars, downVars, apiVars>>

\* await database.execute(alert_history_table.insert()) raises: the
\* exception leaves check_and_trigger_alerts
InsertRaises(s) ==
    /\ ev[s].pc = "insert"
    /\ ev' = [ev EXCEPT ![s] = IdleEval]
    /\ UNCHANGED <<clock, last_alert_times, last_known_statuses, notified, dispatched, alert_history>>
    /\ UNCHANGED <<fanVars, storeVars, schedVars, vpnVars, wsVars, pingVars, downVars, apiVars>>

\* the worker is cancelled while the call is suspended: CancelledError
\* leaves check_and_trigger_alerts at the await
EvalCancelled(s) ==
    /\ ev[s].pc \in {"notify", "insert"}
    /\ ev' = [ev EXCEPT ![s] = IdleEval]
    /\ UNCHANGED <<clock, last_alert_times, last_known_statuses, notified, dispatched, alert_history>>
    /\ UNCHANGED <<fanVars, storeVars, schedVars, vpnVars, wsVars, pingVars, downVars, apiVars>>

\* time passes
Tick ==
    /\ clock < MaxTime
    /\ clock' = clock + 1
    /\ UNCHANGED <<last_alert_times, last_known_statuses, ev, notified, dispatched, alert_history>>
    /\ UNCHANGED <<fanVars, storeVars, schedVars, vpnVars, wsVars, pingVars, downVars, apiVars>>

NextAlert ==
    \/ \E s \in SensorIds : \E result \in ResultsOf(s) : \E alerts \in AlertLists(s) :
          EvalBegin(s, result, alerts)
    \/ \E s \in SensorIds : NotifyDone(s)
    \/ \E s \in SensorIds : InsertDone(s)
    \/ \E s \in SensorIds : InsertRaises(s)
    \/ \E s \in SensorIds : EvalCancelled(s)
    \/ Tick

\* evaluations of samples around the thresholds, with alerts of every
\* direction and with channels of the tenant, of another tenant and of none
NextRules ==
    \/ \E s \in SensorIds : \E result \in RuleResults(s) : \E alerts \in RuleLists(s) :
          EvalBegin(s, result, alerts)
    \/ \E s \in SensorIds : NotifyDone(s)
    \/ \E s \in SensorIds : InsertDone(s)
    \/ \E s \in SensorIds : InsertRaises(s)

\* evaluations by workers that restart_sensor, update_sensor or a relaunch
\* cancel
NextRelaunch ==
    \/ \E s \in SensorIds : \E result \in ResultsOf(s) : \E alerts \in AlertLists(s) :
          EvalBegin(s, result, alerts)
    \/ \E s \in SensorIds : NotifyDone(s)
    \/ \E s \in SensorIds : InsertDone(s)
    \/ \E s \in SensorIds : EvalCancelled(s)
    \/ Tick

(***************************************************************************)
(* Store and scheduler state                                               *)
(***************************************************************************)
InitStore(present, pid, cfgs) ==
    /\ sensors = [s \in SensorIds |-> IF s \in present THEN "present" ELSE "absent"]
    /\ sensor_cfg \in [SensorIds -> cfgs]
    /\ monitor_row = TRUE
    /\ device_row = TRUE
    /\ device_vpn = pid
    /\ samples = [s \in SensorIds |-> << >>]

InitSched ==
    /\ started = FALSE
    /\ running_tasks = [s \in SensorIds |-> NoTask]
    /\ tasks = [t \in TaskIds |-> NewTask]
    /\ launches = [l \in LaunchIds |-> NewLaunch]
    /\ delPending = {}
    /\ delReturned = {}
    /\ monDelPending = FALSE
    /\ connection_pools = {}
    /\ open_pools = 0

InitVpnState ==
    /\ VPN_STATE = [p \in Profiles |-> NoObj]
    /\ vpnObj = [o \in ObjIds |-> VpnDict(0, FALSE)]
    /\ ifaceUp = [p \in Profiles |-> FALSE]
    /\ reach = "ok"

Max0Not(n) == n
Max0(n) == IF n < 0 THEN 0 ELSE n

FreeLaunches(ls) == {l \in LaunchIds : ls[l].pc = "none"}
FreeTasks(ts) == {t \in TaskIds : ts[t].pc = "none"}
Lowest(S) == CHOOSE x \in S : \A y \in S : x <= y

\* asyncio.create_task(launch_sensor_task(s))
CreateLaunch(ls, s) ==
    [ls EXCEPT ![Lowest(FreeLaunches(ls))] = [NewLaunch EXCEPT !.sid = s, !.pc = "fetch"]]

RECURSIVE CreateLaunches(_, _)
CreateLaunches(ls, S) ==
    IF S = {} THEN ls
    ELSE CreateLaunches(CreateLaunch(ls, Lowest(S)), S \ {Lowest(S)})

\* if sensor_id in running_tasks: running_tasks[sensor_id].cancel()
CancelRegisteredNot(ts, rt, s) == ts
CancelRegistered(ts, rt, s) ==
    IF rt[s] # NoTask /\ ts[rt[s]].pc \notin {"done", "failed"}
    THEN [ts EXCEPT ![rt[s]].cancelled = TRUE] ELSE ts

\* number of stored samples, over all sensors
RECURSIVE CountSamples(_, _)
CountSamples(sm, S) ==
    IF S = {} THEN 0
    ELSE Len(sm[Lowest(S)]) + CountSamples(sm, S \ {Lowest(S)})
Room == CountSamples(samples, SensorIds) < MaxSamples

RECURSIVE CancelAll(_, _, _)
CancelAll(ts, rt, S) ==
    IF S = {} THEN ts
    ELSE CancelAll(CancelRegistered(ts, rt, Lowest(S)), rt, S \ {Lowest(S)})

\* ON DELETE CASCADE from monitors to sensors and from sensors to results
CascadeSensors == [s \in SensorIds |-> IF sensors[s] = "present" THEN "deleted" ELSE sensors[s]]
CascadeCfg == [s \in SensorIds |-> IF sensors[s] = "present" THEN "good" ELSE sensor_cfg[s]]
CascadeSamples == [s \in SensorIds |-> IF sensors[s] = "present" THEN << >> ELSE samples[s]]

(***************************************************************************)
(* Requests on sensors, monitors and devices                               *)
(***************************************************************************)
\* startup(): a launch task for every row of sensors_table
Startup ==
    /\ ~started
    /\ started' = TRUE
    /\ LET rows == {s \in SensorIds : sensors[s] = "present"}
       IN /\ Cardinality(FreeLaunches(launches)) >= Cardinality(rows)
          /\ launches' = CreateLaunches(launches, rows)
    /\ UNCHANGED <<running_tasks, tasks, delPending, delReturned, monDelPending, connection_pools, open_pools>>
    /\ UNCHANGED <<fanVars, alertVars, storeVars, vpnVars, wsVars, pingVars, downVars, apiVars>>

\* launch_sensor_task: await database.fetch_one(q) reads the sensor joined
\* with its monitor and device
LaunchFetch(l) ==
    /\ launches[l].pc = "fetch"
    /\ LET s == launches[l].sid
       IN launches' = [launches EXCEPT ![l] =
                         [launches[l] EXCEPT !.pc = "got",
                                             !.row = (sensors[s] = "present"),
                                             !.cfg = sensor_cfg[s],
                                             !.pid = device_vpn]]
    /\ UNCHANGED <<started, running_tasks, tasks, delPending, delReturned, monDelPending, connection_pools, open_pools>>
    /\ UNCHANGED <<fanVars, alertVars, storeVars, vpnVars, wsVars, pingVars, downVars, apiVars>>

\* launch_sensor_task after the fetch: no row, return; else cancel and pop
\* the registered task, create the worker task and register it
LaunchInstall(l) ==
    /\ launches[l].pc = "got"
    /\ launches' = [launches EXCEPT ![l] = [NewLaunch EXCEPT !.pc = "done"]]
    /\ IF ~launches[l].row
       THEN UNCHANGED <<running_tasks, tasks>>
       ELSE LET s == launches[l].sid
                ts == CancelRegistered(tasks, running_tasks, s)
                t == Lowest(FreeTasks(tasks))
            IN /\ FreeTasks(tasks) # {}
               /\ tasks' = [ts EXCEPT ![t] = [NewTask EXCEPT !.sid = s, !.pc = "new",
                                                            !.cfg = launches[l].cfg,
                                                            !.pid = launches[l].pid]]
               /\ running_tasks' = [running_tasks EXCEPT ![s] = t]
    /\ UNCHANGED <<started, delPending, delReturned, monDelPending, connection_pools, open_pools>>
    /\ UNCHANGED <<fanVars, alertVars, storeVars, vpnVars, wsVars, pingVars, downVars, apiVars>>

\* restart_sensor after its ownership check: cancel and pop, then launch
RestartSensor(s) ==
    /\ started
    /\ sensors[s] = "present"
    /\ FreeLaunches(launches) # {}
    /\ tasks' = CancelRegistered(tasks, running_tasks, s)
    /\ running_tasks' = [running_tasks EXCEPT ![s] = NoTask]
    /\ launches' = CreateLaunch(launches, s)
    /\ UNCHANGED <<started, delPending, delReturned, monDelPending, connection_pools, open_pools>>
    /\ UNCHANGED <<fanVars, alertVars, storeVars, vpnVars, wsVars, pingVars, downVars, apiVars>>

\* update_sensor after its ownership check: update the row, then launch
UpdateSensor(s, cfg) ==
    /\ started
    /\ sensors[s] = "present"
    /\ FreeLaunches(launches) # {}
    /\ sensor_cfg' = [sensor_cfg EXCEPT ![s] = cfg]
    /\ launches' = CreateLaunch(launches, s)
    /\ UNCHANGED <<sensors, monitor_row, device_row, device_vpn, samples>>
    /\ UNCHANGED <<started, running_tasks, tasks, delPending, delReturned, monDelPending, connection_pools, open_pools>>
    /\ UNCHANGED <<fanVars, alertVars, vpnVars, wsVars, pingVars, downVars, apiVars>>

\* delete_sensor after its ownership check: the row is deleted
DeleteSensorRow(s) ==
    /\ started
    /\ sensors[s] = "present"
    /\ s \notin delPending
    /\ sensors' = [sensors EXCEPT ![s] = "deleted"]
    /\ sensor_cfg' = [sensor_cfg EXCEPT ![s] = "good"]
    /\ samples' = [samples EXCEPT ![s] = << >>]
    /\ delPending' = delPending \cup {s}
    /\ UNCHANGED <<monitor_row, device_row, device_vpn>>
    /\ UNCHANGED <<started, running_tasks, tasks, launches, delReturned, monDelPending, connection_pools, open_pools>>
    /\ UNCHANGED <<fanVars, alertVars, vpnVars, wsVars, pingVars, downVars, apiVars>>

\* delete_sensor after its delete: cancel and pop, return
DeleteSensorStop(s) ==
    /\ s \in delPending
    /\ tasks' = CancelRegistered(tasks, running_tasks, s)
    /\ running_tasks' = [running_tasks EXCEPT ![s] = NoTask]
    /\ delPending' = delPending \ {s}
    /\ delReturned' = delReturned \cup {s}
    /\ UNCHANGED <<started, launches, monDelPending, connection_pools, open_pools>>
    /\ UNCHANGED <<fanVars, alertVars, storeVars, vpnVars, wsVars, pingVars, downVars, apiVars>>

\* delete_monitor_and_sensors: the sensors of the monitor are read, their
\* tasks cancelled and popped
DeleteMonitorStop ==
    /\ started
    /\ monitor_row
    /\ ~monDelPending
    /\ LET S == {s \in SensorIds : sensors[s] = "present"}
       IN /\ tasks' = CancelAll(tasks, running_tasks, S)
          /\ running_tasks' = [s \in SensorIds |-> IF s \in S THEN NoTask ELSE running_tasks[s]]
    /\ monDelPending' = TRUE
    /\ UNCHANGED <<started, launches, delPending, delReturned, connection_pools, open_pools>>
    /\ UNCHANGED <<fanVars, alertVars, storeVars, vpnVars, wsVars, pingVars, downVars, apiVars>>

\* delete_monitor_and_sensors: the monitor is deleted (cascade)
DeleteMonitorRow ==
    /\ monDelPending
    /\ monDelPending' = FALSE
    /\ monitor_row' = FALSE
    /\ sensors' = CascadeSensors
    /\ sensor_cfg' = CascadeCfg
    /\ samples' = CascadeSamples
    /\ UNCHANGED <<device_row, device_vpn>>
    /\ UNCHANGED <<started, running_tasks, tasks, launches, delPending, delReturned, connection_pools, open_pools>>
    /\ UNCHANGED <<fanVars, alertVars, vpnVars, wsVars, pingVars, downVars, apiVars>>

\* remove_device_from_monitor: the monitors of the device are deleted
\* (cascade), then the device
RemoveDevice ==
    /\ started
    /\ device_row
    /\ device_row' = FALSE
    /\ monitor_row' = FALSE
    /\ sensors' = CascadeSensors
    /\ sensor_cfg' = CascadeCfg
    /\ samples' = CascadeSamples
    /\ UNCHANGED device_vpn
    /\ UNCHANGED schedVars
    /\ UNCHANGED <<fanVars, alertVars, vpnVars, wsVars, pingVars, downVars, apiVars>>

(***************************************************************************)
(* WireGuard tunnels: VPN_STATE holds references to dict objects; an       *)
(* ensure_vpn_up call keeps the reference it read at entry (st)            *)
(***************************************************************************)
EnsurePcs == {"v_chk", "v_db", "v_up", "v_show", "v_down", "v_up2", "v_poll"}
\* the suspension points inside the worker's try block
CyclePcs == {"cred", "write", "publish", "alerts", "x_write", "x_publish", "x_alerts", "sleep"}
InTryNever(pc) == FALSE
InTry(pc) == pc \in CyclePcs

Referenced(o, vs, ts) ==
    \/ \E p \in Profiles : vs[p] = o
    \/ \E u \in TaskIds : ts[u].st = o
\* dict objects nothing refers to any more are collected
Canon(objs, vs, ts) ==
    [o \in ObjIds |-> IF Referenced(o, vs, ts) THEN objs[o] ELSE VpnDict(0, FALSE)]
Commit(ts, vs, objs) ==
    /\ tasks' = ts
    /\ VPN_STATE' = vs
    /\ vpnObj' = Canon(objs, vs, ts)

SetTask(ts, t, r) == [ts EXCEPT ![t] = r]

RefcountIn(vs, objs, p) == IF vs[p] = NoObj THEN 0 ELSE objs[vs[p]].refcount
UpIn(vs, objs, p) == IF vs[p] = NoObj THEN FALSE ELSE objs[vs[p]].up

\* another caller's ensure_vpn_up / release_vpn on profile p falls inside
\* the ensure..release window of every worker currently holding one
Dirty(ts, t, p) ==
    [u \in TaskIds |->
        IF u # t /\ ts[u].pid = p /\ ts[u].pc \in (EnsurePcs \cup CyclePcs)
        THEN [ts[u] EXCEPT !.clean = FALSE] ELSE ts[u]]

\* release_vpn
ReleaseVpn(vs, objs, p) ==
    IF vs[p] = NoObj THEN objs
    ELSE [objs EXCEPT ![vs[p]].refcount = Max0(@ - 1)]

\* history: the awaited steps of the current cycle that took effect, in
\* order, each with the result_data it was given
Did(r, op, v) == [r EXCEPT !.cycle = Append(@, [op |-> op, result |-> v])]

\* broadcast_data: {"sensor_id", "sensor_type", **result_data, "timestamp"}
BroadcastNot(r) == [sensor_id |-> r.sid, sensor_type |-> SensorType[r.sid], result |-> NoResult]
Broadcast(r) == [sensor_id |-> r.sid, sensor_type |-> SensorType[r.sid], result |-> r.result_data]

\* the cycle is over: await asyncio.sleep(interval)
Sleep(r) == [r EXCEPT !.pc = "sleep", !.ts = 0, !.result_data = NoResult, !.probe = ""]

\* finally: await _release_origin_connectivity(...)
Finally(t, ts, r, vs, objs) ==
    IF r.pid = NoProfile
    THEN Commit(SetTask(ts, t, [Sleep(r) EXCEPT !.pc = "done", !.exc = FALSE, !.cycle = << >>]), vs, objs)
    ELSE LET objs1 == ReleaseVpn(vs, objs, r.pid)
         IN Commit(SetTask(Dirty(ts, t, r.pid), t,
                           [Sleep(r) EXCEPT !.pc = "done", !.exc = FALSE, !.cycle = << >>,
                                     !.releases = @ + 1,
                                     !.post = RefcountIn(vs, objs1, r.pid),
                                     !.postUp = UpIn(vs, objs1, r.pid)]),
                   vs, objs1)

\* result_data of the except path
ErrorResult(s) ==
    IF SensorType[s] = "ping" THEN PingResult("timeout", NoLatency)
    ELSE EthResult("link_down", "N/A", 0, 0)

\* except Exception as e: up to the await of the insert of the error sample
ExceptEnds(r) == [r EXCEPT !.pc = "failed"]
Except(r) ==
    [r EXCEPT !.pc = "x_write", !.ts = clock, !.result_data = ErrorResult(r.sid),
              !.exc = TRUE]

\* what the RouterOS calls of a cycle do.  ping: the device answers with
\* received = "1", answers with no reply from the target ("silent"), or
\* get_api / the call raises.  ethernet: the calls answer, or the device
\* is down and get_api raises or every call raises inside its own try.
ProbeOutcomes(s) ==
    IF SensorType[s] = "ping"
    THEN CASE reach = "ok" -> {"reply"}
           [] reach = "silent" -> {"no_reply"}
           [] reach = "down" -> {"raise"}
    ELSE IF reach = "down" THEN {"calls_fail", "raise"} ELSE {"link"}

\* result_data when the calls are over
ProbeResult(o) ==
    CASE o = "reply" -> PingResult("ok", 30)
      [] o = "no_reply" -> PingResult("timeout", 9999)
      [] o = "link" -> EthResult("link_up", "1Gbps", 0, 0)
      [] o = "calls_fail" -> EthResult("error", "N/A", 0, 0)

\* the probe (RouterOS calls, blocking) up to the await of the sample
\* insert; the timestamp is taken before the await
Probe(t, ts, r, vs, objs) ==
    \E o \in ProbeOutcomes(r.sid) :
        Commit(SetTask(ts, t,
                       IF o = "raise" THEN Except([r EXCEPT !.probe = o])
                       ELSE [r EXCEPT !.pc = "write", !.ts = clock, !.probe = o,
                                      !.result_data = ProbeResult(o)]),
               vs, objs)

\* while sensor_id in running_tasks: ... up to the first await of the cycle
EnterLoop(t, ts, r, pool, vs, objs) ==
    LET r0 == [r EXCEPT !.exc = FALSE, !.cycle = << >>] IN
    IF running_tasks[r.sid] = NoTask
    THEN Finally(t, ts, r0, vs, objs)
    ELSE IF DeviceIp \notin pool
         THEN Commit(SetTask(ts, t, [r0 EXCEPT !.pc = "cred"]), vs, objs)
         ELSE Probe(t, ts, r0, vs, objs)

\* ensure_vpn_up returns to its caller: the worker goes on to its loop,
\* test_device_reachability to await asyncio.sleep(1)
Acquired(t, ts, r, pool, vs, objs) ==
    IF r.sid = NoSensor
    THEN Commit(SetTask(ts, t, [r EXCEPT !.pc = "t_sleep"]), vs, objs)
    ELSE EnterLoop(t, ts, r, pool, vs, objs)

\* ensure_vpn_up raises: the worker task ends with the exception (its
\* call is before the try); test_device_reachability runs its finally,
\* release_vpn, and answers with the error
Raised(t, ts, r, vs, objs) ==
    IF r.sid = NoSensor
    THEN LET objs1 == ReleaseVpn(vs, objs, r.pid)
         IN Commit(SetTask(Dirty(ts, t, r.pid), t,
                           [r EXCEPT !.pc = "failed", !.st = NoObj, !.releases = @ + 1]),
                   vs, objs1)
    ELSE Commit(SetTask(ts, t, [r EXCEPT !.pc = "failed", !.st = NoObj]), vs, objs)

\* connection_pools[ip] = RouterOsApiPool(...)
PoolOpen(pool) == pool \cup {DeviceIp}
\* if ip in connection_pools: disconnect(); connection_pools.pop(ip, None)
PoolInvalidateNot(pool) == pool
PoolInvalidate(pool) == pool \ {DeviceIp}
Disconnected(pool, n) == IF DeviceIp \in pool THEN n - 1 ELSE n

\* a row of ping_results / ethernet_results
Row(r) == [ts |-> r.ts, result |-> r.result_data]

\* ensure_vpn_up up to its first await
EnsureEntry(t, ts, r) ==
    LET st == VPN_STATE[r.pid]
        overlap == \E u \in TaskIds : u # t /\ ts[u].pid = r.pid /\ ts[u].pc \in EnsurePcs
        r1 == [r EXCEPT !.st = st,
                        !.pre = RefcountIn(VPN_STATE, vpnObj, r.pid),
                        !.clean = ~overlap,
                        !.pc = IF st # NoObj /\ vpnObj[st].up THEN "v_chk" ELSE "v_db"]
    IN Commit(SetTask(Dirty(ts, t, r.pid), t, r1), VPN_STATE, vpnObj)

(***************************************************************************)
(* Worker tasks (run_ping_monitor, run_ethernet_monitor), one action per   *)
(* resumption                                                              *)
(***************************************************************************)
Live(r) == r.pc \notin {"none", "done", "failed"}

\* a task runs for the first time.  The event loop is FIFO: the
\* CancelledError of a task cancelled before t was created is delivered
\* before t's first step.
WStart(t) ==
    LET r == tasks[t] IN
    /\ r.pc = "new"
    /\ ~r.cancelled
    /\ \A u \in TaskIds : (u # t /\ tasks[u].sid = r.sid /\ tasks[u].cancelled) => ~Live(tasks[u])
    /\ IF SensorType[r.sid] = "ping" /\ r.cfg # "good"
       THEN Commit(SetTask(tasks, t, [r EXCEPT !.pc = "done", !.cfg = "good"]), VPN_STATE, vpnObj)
       ELSE IF r.pid = NoProfile
            THEN EnterLoop(t, tasks, [r EXCEPT !.cfg = "good"], connection_pools, VPN_STATE, vpnObj)
            ELSE EnsureEntry(t, tasks, [r EXCEPT !.cfg = "good"])
    /\ UNCHANGED <<started, running_tasks, launches, delPending, delReturned, monDelPending, connection_pools, open_pools>>
    /\ UNCHANGED <<ifaceUp, reach, wsVars, pingVars, downVars, apiVars>>
    /\ UNCHANGED <<fanVars, alertVars, storeVars>>

\* the credentials fetch returns: the session is opened and the probe
\* made, or no credentials are found
WCredDone(t, found) ==
    LET r == tasks[t] IN
    /\ r.pc = "cred"
    /\ ~r.cancelled
    /\ IF found
       THEN /\ open_pools < MaxOpenPools
            /\ connection_pools' = PoolOpen(connection_pools)
            /\ open_pools' = open_pools + 1
            /\ Probe(t, tasks, r, VPN_STATE, vpnObj)
       ELSE /\ UNCHANGED <<connection_pools, open_pools>>
            /\ Commit(SetTask(tasks, t, Except(r)), VPN_STATE, vpnObj)
    /\ UNCHANGED <<started, running_tasks, launches, delPending, delReturned, monDelPending>>
    /\ UNCHANGED <<ifaceUp, reach, wsVars, pingVars, downVars, apiVars>>
    /\ UNCHANGED <<fanVars, alertVars, storeVars>>

\* the sample insert returns: stored, or the insert raises (row gone)
WWriteDone(t) ==
    LET r == tasks[t] IN
    /\ r.pc = "write"
    /\ ~r.cancelled
    /\ IF sensors[r.sid] = "present"
       THEN /\ Room
            /\ samples' = [samples EXCEPT ![r.sid] = Append(@, Row(r))]
            /\ Commit(SetTask(tasks, t, [Did(r, "persist", Row(r).result) EXCEPT !.pc = "publish", !.ts = 0]), VPN_STATE, vpnObj)
       ELSE /\ UNCHANGED samples
            /\ Commit(SetTask(tasks, t, Except(Did(r, "lost", Row(r).result))), VPN_STATE, vpnObj)
    /\ UNCHANGED <<sensors, sensor_cfg, monitor_row, device_row, device_vpn>>
    /\ UNCHANGED <<started, running_tasks, launches, delPending, delReturned, monDelPending, connection_pools, open_pools>>
    /\ UNCHANGED <<ifaceUp, reach, wsVars, pingVars, downVars, apiVars>>
    /\ UNCHANGED <<fanVars, alertVars>>

\* manager.broadcast_for returns
WPublishDone(t) ==
    LET r == tasks[t] IN
    /\ r.pc = "publish"
    /\ ~r.cancelled
    /\ Commit(SetTask(tasks, t, [Did(r, "publish", Broadcast(r).result) EXCEPT !.pc = "alerts"]), VPN_STATE, vpnObj)
    /\ UNCHANGED <<started, running_tasks, launches, delPending, delReturned, monDelPending, connection_pools, open_pools>>
    /\ UNCHANGED <<ifaceUp, reach, wsVars, pingVars, downVars, apiVars>>
    /\ UNCHANGED <<fanVars, alertVars, storeVars>>

\* check_and_trigger_alerts returns or raises
WAlertsDone(t, ok) ==
    LET r == tasks[t] IN
    /\ r.pc = "alerts"
    /\ ~r.cancelled
    /\ Commit(SetTask(tasks, t, IF ok THEN Sleep(Did(r, "alerts", r.result_data)) ELSE Except(Did(r, "alerts", r.result_data))),
              VPN_STATE, vpnObj)
    /\ UNCHANGED <<started, running_tasks, launches, delPending, delReturned, monDelPending, connection_pools, open_pools>>
    /\ UNCHANGED <<ifaceUp, reach, wsVars, pingVars, downVars, apiVars>>
    /\ UNCHANGED <<fanVars, alertVars, storeVars>>

\* except path: the insert of the timeout / link_down sample returns or
\* raises; run_ping_monitor swallows the error of the insert alone,
\* run_ethernet_monitor has one try around insert, publish and alerts
WXWriteDone(t) ==
    LET r == tasks[t] IN
    /\ r.pc = "x_write"
    /\ ~r.cancelled
    /\ IF sensors[r.sid] = "present"
       THEN /\ Room
            /\ samples' = [samples EXCEPT ![r.sid] = Append(@, Row(r))]
            /\ UNCHANGED <<connection_pools, open_pools>>
            /\ Commit(SetTask(tasks, t, [Did(r, "persist", Row(r).result) EXCEPT !.pc = "x_publish", !.ts = 0]), VPN_STATE, vpnObj)
       ELSE /\ UNCHANGED samples
            /\ IF SensorType[r.sid] = "ping"
               THEN /\ UNCHANGED <<connection_pools, open_pools>>
                    /\ Commit(SetTask(tasks, t, [Did(r, "lost", Row(r).result) EXCEPT !.pc = "x_publish", !.ts = 0]), VPN_STATE, vpnObj)
               ELSE /\ connection_pools' = PoolInvalidate(connection_pools)
                    /\ open_pools' = Disconnected(connection_pools, open_pools)
                    /\ Commit(SetTask(tasks, t, Sleep(Did(r, "lost", Row(r).result))), VPN_STATE, vpnObj)
    /\ UNCHANGED <<sensors, sensor_cfg, monitor_row, device_row, device_vpn>>
    /\ UNCHANGED <<started, running_tasks, launches, delPending, delReturned, monDelPending>>
    /\ UNCHANGED <<ifaceUp, reach, wsVars, pingVars, downVars, apiVars>>
    /\ UNCHANGED <<fanVars, alertVars>>

\* except path: manager.broadcast_for returns
WXPublishDone(t) ==
    LET r == tasks[t] IN
    /\ r.pc = "x_publish"
    /\ ~r.cancelled
    /\ Commit(SetTask(tasks, t, [Did(r, "publish", Broadcast(r).result) EXCEPT !.pc = "x_alerts"]), VPN_STATE, vpnObj)
    /\ UNCHANGED <<started, running_tasks, launches, delPending, delReturned, monDelPending, connection_pools, open_pools>>
    /\ UNCHANGED <<ifaceUp, reach, wsVars, pingVars, downVars, apiVars>>
    /\ UNCHANGED <<fanVars, alertVars, storeVars>>

\* except path after the alerts (returned, or raised and swallowed): the
\* pooled connection is dropped
WXAlertsDone(t) ==
    LET r == tasks[t] IN
    /\ r.pc = "x_alerts"
    /\ ~r.cancelled
    /\ connection_pools' = PoolInvalidate(connection_pools)
    /\ open_pools' = Disconnected(connection_pools, open_pools)
    /\ Commit(SetTask(tasks, t, Sleep(Did(r, "alerts", r.result_data))), VPN_STATE, vpnObj)
    /\ UNCHANGED <<started, running_tasks, launches, delPending, delReturned, monDelPending>>
    /\ UNCHANGED <<ifaceUp, reach, wsVars, pingVars, downVars, apiVars>>
    /\ UNCHANGED <<fanVars, alertVars, storeVars>>

\* await asyncio.sleep(interval) returns
WSleepDone(t) ==
    LET r == tasks[t] IN
    /\ r.pc = "sleep"
    /\ ~r.cancelled
    /\ EnterLoop(t, tasks, r, connection_pools, VPN_STATE, vpnObj)
    /\ UNCHANGED <<started, running_tasks, launches, delPending, delReturned, monDelPending, connection_pools, open_pools>>
    /\ UNCHANGED <<ifaceUp, reach, wsVars, pingVars, downVars, apiVars>>
    /\ UNCHANGED <<fanVars, alertVars, storeVars>>

\* CancelledError is delivered at the task's suspension point (a task that
\* never ran does not run at all).  An insert that was in flight has
\* reached the store or not.
WCancelled(t, stored) ==
    LET r == tasks[t] IN
    /\ r.cancelled
    /\ Live(r)
    /\ IF stored
       THEN /\ r.pc \in {"write", "x_write"}
            /\ sensors[r.sid] = "present"
            /\ Room
            /\ samples' = [samples EXCEPT ![r.sid] = Append(@, Row(r))]
       ELSE UNCHANGED samples
    /\ IF InTry(r.pc)
       THEN Finally(t, tasks, r, VPN_STATE, vpnObj)
       ELSE Commit(SetTask(tasks, t, [r EXCEPT !.pc = "done", !.st = NoObj, !.ts = 0, !.cfg = "good", !.cycle = << >>]), VPN_STATE, vpnObj)
    /\ UNCHANGED <<sensors, sensor_cfg, monitor_row, device_row, device_vpn>>
    /\ UNCHANGED <<started, running_tasks, launches, delPending, delReturned, monDelPending, connection_pools, open_pools>>
    /\ UNCHANGED <<ifaceUp, reach, wsVars, pingVars, downVars, apiVars>>
    /\ UNCHANGED <<fanVars, alertVars>>

(***************************************************************************)
(* ensure_vpn_up, one action per resumption                                *)
(***************************************************************************)
\* history: VPN_STATE[profile_id] = st puts back a dict with another
\* refcount than the one on record
Moved(r) == vpnObj[r.st].refcount # RefcountIn(VPN_STATE, vpnObj, r.pid)

\* fast path: await _iface_exists_up(iface) returns
EnsChk(t) ==
    LET r == tasks[t] IN
    /\ r.pc = "v_chk"
    /\ ~r.cancelled
    /\ IF ifaceUp[r.pid]
       THEN Acquired(t, tasks, [r EXCEPT !.acquired = TRUE, !.st = NoObj], connection_pools,
                      [VPN_STATE EXCEPT ![r.pid] = r.st],
                      [vpnObj EXCEPT ![r.st].refcount = @ + 1])
       ELSE Commit(SetTask(tasks, t, [r EXCEPT !.pc = "v_db", !.moved = Moved(r)]),
                   [VPN_STATE EXCEPT ![r.pid] = r.st],
                   [vpnObj EXCEPT ![r.st].up = FALSE])
    /\ UNCHANGED <<started, running_tasks, launches, delPending, delReturned, monDelPending, connection_pools, open_pools>>
    /\ UNCHANGED <<ifaceUp, reach, wsVars, pingVars, downVars, apiVars>>
    /\ UNCHANGED <<fanVars, alertVars, storeVars>>

\* the fetch of the vpn_profiles row returns; the conf file is written and
\* wg-quick up is started
EnsDb(t, found) ==
    LET r == tasks[t] IN
    /\ r.pc = "v_db"
    /\ ~r.cancelled
    /\ IF found THEN Commit(SetTask(tasks, t, [r EXCEPT !.pc = "v_up"]), VPN_STATE, vpnObj)
       ELSE Raised(t, tasks, r, VPN_STATE, vpnObj)
    /\ UNCHANGED <<started, running_tasks, launches, delPending, delReturned, monDelPending, connection_pools, open_pools>>
    /\ UNCHANGED <<ifaceUp, reach, wsVars, pingVars, downVars, apiVars>>
    /\ UNCHANGED <<fanVars, alertVars, storeVars>>

\* wg-quick up returns; it fails when the interface already exists
EnsUp(t, ok) ==
    LET r == tasks[t] IN
    /\ r.pc = "v_up"
    /\ ~r.cancelled
    /\ ok => ~ifaceUp[r.pid]
    /\ ifaceUp' = IF ok THEN [ifaceUp EXCEPT ![r.pid] = TRUE] ELSE ifaceUp
    /\ UNCHANGED <<reach, wsVars, pingVars, downVars, apiVars>>
    /\ Commit(SetTask(tasks, t, [r EXCEPT !.pc = IF ok THEN "v_poll" ELSE "v_show"]),
              VPN_STATE, vpnObj)
    /\ UNCHANGED <<started, running_tasks, launches, delPending, delReturned, monDelPending, connection_pools, open_pools>>
    /\ UNCHANGED <<fanVars, alertVars, storeVars>>

\* wg show returns
EnsShow(t) ==
    LET r == tasks[t] IN
    /\ r.pc = "v_show"
    /\ ~r.cancelled
    /\ Commit(SetTask(tasks, t, [r EXCEPT !.pc = IF ifaceUp[r.pid] THEN "v_poll" ELSE "v_down"]),
              VPN_STATE, vpnObj)
    /\ UNCHANGED <<started, running_tasks, launches, delPending, delReturned, monDelPending, connection_pools, open_pools>>
    /\ UNCHANGED <<ifaceUp, reach, wsVars, pingVars, downVars, apiVars>>
    /\ UNCHANGED <<fanVars, alertVars, storeVars>>

\* wg-quick down returns
EnsDown(t) ==
    LET r == tasks[t] IN
    /\ r.pc = "v_down"
    /\ ~r.cancelled
    /\ ifaceUp' = [ifaceUp EXCEPT ![r.pid] = FALSE]
    /\ UNCHANGED <<reach, wsVars, pingVars, downVars, apiVars>>
    /\ Commit(SetTask(tasks, t, [r EXCEPT !.pc = "v_up2"]), VPN_STATE, vpnObj)
    /\ UNCHANGED <<started, running_tasks, launches, delPending, delReturned, monDelPending, connection_pools, open_pools>>
    /\ UNCHANGED <<fanVars, alertVars, storeVars>>

\* the second wg-quick up returns; failure raises
EnsUp2(t, ok) ==
    LET r == tasks[t] IN
    /\ r.pc = "v_up2"
    /\ ~r.cancelled
    /\ ok => ~ifaceUp[r.pid]
    /\ ifaceUp' = IF ok THEN [ifaceUp EXCEPT ![r.pid] = TRUE] ELSE ifaceUp
    /\ UNCHANGED <<reach, wsVars, pingVars, downVars, apiVars>>
    /\ IF ok THEN Commit(SetTask(tasks, t, [r EXCEPT !.pc = "v_poll"]), VPN_STATE, vpnObj)
       ELSE Raised(t, tasks, r, VPN_STATE, vpnObj)
    /\ UNCHANGED <<started, running_tasks, launches, delPending, delReturned, monDelPending, connection_pools, open_pools>>
    /\ UNCHANGED <<fanVars, alertVars, storeVars>>

\* refcount of the dict installed by the slow path
SlowRefcountOne(r) == 1
SlowRefcount(r) == IF r.st # NoObj THEN vpnObj[r.st].refcount + 1 ELSE 1

\* the poll sees the interface UP and installs a new dict, or gives up
EnsPoll(t) ==
    LET r == tasks[t] IN
    /\ r.pc = "v_poll"
    /\ ~r.cancelled
    /\ IF ifaceUp[r.pid]
       THEN LET o == Lowest({x \in ObjIds : ~Referenced(x, VPN_STATE, tasks)})
            IN Acquired(t, tasks, [r EXCEPT !.acquired = TRUE, !.st = NoObj, !.moved = FALSE],
                         connection_pools,
                         [VPN_STATE EXCEPT ![r.pid] = o],
                         [vpnObj EXCEPT ![o] = VpnDict(SlowRefcount(r), TRUE)])
       ELSE Raised(t, tasks, r, VPN_STATE, vpnObj)
    /\ UNCHANGED <<started, running_tasks, launches, delPending, delReturned, monDelPending, connection_pools, open_pools>>
    /\ UNCHANGED <<ifaceUp, reach, wsVars, pingVars, downVars, apiVars>>
    /\ UNCHANGED <<fanVars, alertVars, storeVars>>

\* test_device_reachability with a vpn_profile_id, after the profile row
\* was found: try: await ensure_vpn_up(...) up to its first await
TestBegin(p) ==
    /\ FreeTasks(tasks) # {}
    /\ LET t == Lowest(FreeTasks(tasks))
       IN EnsureEntry(t, tasks, [NewTask EXCEPT !.sid = NoSensor, !.pid = p])
    /\ UNCHANGED <<started, running_tasks, launches, delPending, delReturned, monDelPending, connection_pools, open_pools>>
    /\ UNCHANGED <<ifaceUp, reach, wsVars, pingVars, downVars, apiVars>>
    /\ UNCHANGED <<fanVars, alertVars, storeVars>>

\* await asyncio.sleep(1) returns; test_and_get_credential_id is awaited
TestSleep(t) ==
    LET r == tasks[t] IN
    /\ r.pc = "t_sleep"
    /\ Commit(SetTask(tasks, t, [r EXCEPT !.pc = "t_cred"]), VPN_STATE, vpnObj)
    /\ UNCHANGED <<started, running_tasks, launches, delPending, delReturned, monDelPending, connection_pools, open_pools>>
    /\ UNCHANGED <<ifaceUp, reach, wsVars, pingVars, downVars, apiVars>>
    /\ UNCHANGED <<fanVars, alertVars, storeVars>>

\* test_and_get_credential_id returns; finally: await release_vpn(...);
\* the request is answered
TestDone(t) ==
    LET r == tasks[t] IN
    /\ r.pc = "t_cred"
    /\ Commit(SetTask(Dirty(tasks, t, r.pid), t, NewTask), VPN_STATE,
              ReleaseVpn(VPN_STATE, vpnObj, r.pid))
    /\ UNCHANGED <<started, running_tasks, launches, delPending, delReturned, monDelPending, connection_pools, open_pools>>
    /\ UNCHANGED <<ifaceUp, reach, wsVars, pingVars, downVars, apiVars>>
    /\ UNCHANGED <<fanVars, alertVars, storeVars>>

\* the interface goes away outside the program
IfaceDrop(p) ==
    /\ ifaceUp[p]
    /\ ifaceUp' = [ifaceUp EXCEPT ![p] = FALSE]
    /\ UNCHANGED <<reach, wsVars, pingVars, downVars, apiVars>>
    /\ UNCHANGED <<VPN_STATE, vpnObj>>
    /\ UNCHANGED <<fanVars, alertVars, storeVars, schedVars>>

WorkerStep ==
    \E t \in TaskIds :
        \/ WStart(t)
        \/ \E found \in BOOLEAN : WCredDone(t, found)
        \/ WWriteDone(t)
        \/ WPublishDone(t)
        \/ \E ok \in BOOLEAN : WAlertsDone(t, ok)
        \/ WXWriteDone(t)
        \/ WXPublishDone(t)
        \/ WXAlertsDone(t)
        \/ WSleepDone(t)
        \/ \E stored \in BOOLEAN : WCancelled(t, stored)

NextSched ==
    \/ Startup
    \/ \E l \in LaunchIds : LaunchFetch(l)
    \/ \E l \in LaunchIds : LaunchInstall(l)
    \/ \E s \in SensorIds : RestartSensor(s)
    \/ \E s \in SensorIds, cfg \in Configs : UpdateSensor(s, cfg)
    \/ \E s \in SensorIds : DeleteSensorRow(s)
    \/ \E s \in SensorIds : DeleteSensorStop(s)
    \/ DeleteMonitorStop
    \/ DeleteMonitorRow
    \/ RemoveDevice
    \/ WorkerStep

\* cycles, restarts and reconfigurations of the sensors while time passes
NextStamp ==
    \/ Startup
    \/ \E l \in LaunchIds : LaunchFetch(l)
    \/ \E l \in LaunchIds : LaunchInstall(l)
    \/ \E s \in SensorIds : RestartSensor(s)
    \/ \E s \in SensorIds, cfg \in Configs : UpdateSensor(s, cfg)
    \/ WorkerStep
    \/ Tick

\* list(VPN_STATE.items()): the profiles of the map in the order of the
\* dict, which the model does not record: any order
Items(vs) ==
    LET known == {p \in Profiles : vs[p] # NoObj}
    IN {q \in [1..Cardinality(known) -> known] : \A i, j \in DOMAIN q : q[i] = q[j] => i = j}

\* VPN_STATE[pid]["up"] = False
MarkDown(objs, vs, p) == IF vs[p] = NoObj THEN objs ELSE [objs EXCEPT ![vs[p]].up = FALSE]

\* shutdown(): the pooled sessions are disconnected, the registered workers
\* cancelled, and teardown_all_vpns runs up to its first await (wg-quick
\* down of the first profile; the conf file of a profile of the map was
\* written by ensure_vpn_up and is removed only here)
Shutdown ==
    /\ started
    /\ shutdown_call.pc = "none"
    /\ open_pools' = Disconnected(connection_pools, open_pools)
    /\ tasks' = CancelAll(tasks, running_tasks, SensorIds)
    /\ \E q \in Items(VPN_STATE) :
          shutdown_call' = [pc |-> IF q = << >> THEN "done" ELSE "down", items |-> q, issued |-> {}]
    /\ UNCHANGED <<started, running_tasks, launches, delPending, delReturned, monDelPending, connection_pools>>
    /\ UNCHANGED <<fanVars, alertVars, storeVars, vpnVars, wsVars, pingVars, apiVars>>

\* teardown_all_vpns: wg-quick down of a profile returns; the conf file is
\* removed, the profile marked down, and the loop goes on to the next
\* profile or ends
TeardownDown ==
    /\ shutdown_call.pc = "down"
    /\ LET p == Head(shutdown_call.items)
           rest == Tail(shutdown_call.items)
       IN /\ ifaceUp' = [ifaceUp EXCEPT ![p] = FALSE]
          /\ vpnObj' = MarkDown(vpnObj, VPN_STATE, p)
          /\ shutdown_call' = [pc |-> IF rest = << >> THEN "done" ELSE "down",
                               items |-> rest,
                               issued |-> shutdown_call.issued \cup {p}]
    /\ UNCHANGED <<VPN_STATE, reach>>
    /\ UNCHANGED <<fanVars, alertVars, storeVars, schedVars, wsVars, pingVars, apiVars>>

\* associate_vpn_to_maestro: the update of devices_table.vpn_profile_id
AssociateVpnRow(p) ==
    /\ device_row
    /\ device_vpn # p
    /\ device_vpn' = p
    /\ UNCHANGED <<sensors, sensor_cfg, monitor_row, device_row, samples>>
    /\ UNCHANGED <<fanVars, alertVars, schedVars, vpnVars, wsVars, pingVars, downVars, apiVars>>

\* workers with tunnels, a change of the profile of the device, and the
\* shutdown of the process
NextDown ==
    \/ Startup
    \/ \E l \in LaunchIds : LaunchFetch(l)
    \/ \E l \in LaunchIds : LaunchInstall(l)
    \/ WorkerStep
    \/ \E t \in TaskIds : EnsChk(t)
    \/ \E t \in TaskIds, found \in BOOLEAN : EnsDb(t, found)
    \/ \E t \in TaskIds, ok \in BOOLEAN : EnsUp(t, ok)
    \/ \E t \in TaskIds : EnsShow(t)
    \/ \E t \in TaskIds : EnsDown(t)
    \/ \E t \in TaskIds, ok \in BOOLEAN : EnsUp2(t, ok)
    \/ \E t \in TaskIds : EnsPoll(t)
    \/ \E p \in Profiles : AssociateVpnRow(p)
    \/ Shutdown
    \/ TeardownDown

NextVpn ==
    \/ Startup
    \/ \E l \in LaunchIds : LaunchFetch(l)
    \/ \E l \in LaunchIds : LaunchInstall(l)
    \/ \E s \in SensorIds : DeleteSensorRow(s)
    \/ \E s \in SensorIds : DeleteSensorStop(s)
    \/ WorkerStep
    \/ \E t \in TaskIds : EnsChk(t)
    \/ \E t \in TaskIds, found \in BOOLEAN : EnsDb(t, found)
    \/ \E t \in TaskIds, ok \in BOOLEAN : EnsUp(t, ok)
    \/ \E t \in TaskIds : EnsShow(t)
    \/ \E t \in TaskIds : EnsDown(t)
    \/ \E t \in TaskIds, ok \in BOOLEAN : EnsUp2(t, ok)
    \/ \E t \in TaskIds : EnsPoll(t)
    \/ \E p \in Profiles : IfaceDrop(p)

\* the device or the ping target stops or starts answering
ReachChange(v) ==
    /\ started
    /\ reach # v
    /\ reach' = v
    /\ UNCHANGED <<VPN_STATE, vpnObj, ifaceUp, wsVars, pingVars, downVars, apiVars>>
    /\ UNCHANGED <<fanVars, alertVars, storeVars, schedVars>>

\* the cycles of a ping and an ethernet sensor of one device
NextProbe ==
    \/ \E v \in {"ok", "silent", "down"} : ReachChange(v)
    \/ Startup
    \/ \E l \in LaunchIds : LaunchFetch(l)
    \/ \E l \in LaunchIds : LaunchInstall(l)
    \/ \E s \in SensorIds : DeleteSensorRow(s)
    \/ \E s \in SensorIds : DeleteSensorStop(s)
    \/ WorkerStep

(***************************************************************************)
(* One ping cycle of run_ping_monitor: from the reply of the /ping call to *)
(* result_data.  Strings are sequences of characters.                      *)
(***************************************************************************)
Digits == {"0", "1", "2", "3", "4", "5", "6", "7", "8", "9"}
DigitVal == ("0" :> 0) @@ ("1" :> 1) @@ ("2" :> 2) @@ ("3" :> 3) @@ ("4" :> 4) @@
            ("5" :> 5) @@ ("6" :> 6) @@ ("7" :> 7) @@ ("8" :> 8) @@ ("9" :> 9)

\* int(group) of a run of digits
RECURSIVE IntOf(_)
IntOf(d) ==
    IF d = << >> THEN 0
    ELSE IntOf(SubSeq(d, 1, Len(d) - 1)) * 10 + DigitVal[d[Len(d)]]

\* last index of the run of digits that starts at i
RECURSIVE RunEnd(_, _)
RunEnd(str, i) ==
    IF i < Len(str) /\ str[i + 1] \in Digits THEN RunEnd(str, i + 1) ELSE i

\* re.search(r"(\d+)" + suffix, str): the leftmost position where digits
\* are followed by the suffix; \d+ is greedy and the suffix holds no digit,
\* so the group is the whole run from that position
NoMatch == [found |-> FALSE, group |-> << >>]
Search(str, suffix) ==
    LET at == {i \in 1..Len(str) :
                  /\ str[i] \in Digits
                  /\ RunEnd(str, i) + Len(suffix) <= Len(str)
                  /\ SubSeq(str, RunEnd(str, i) + 1, RunEnd(str, i) + Len(suffix)) = suffix}
    IN IF at = {} THEN NoMatch
       ELSE [found |-> TRUE, group |-> SubSeq(str, Lowest(at), RunEnd(str, Lowest(at)))]

\* current_latency = seconds * 1000 + millis
ParseRtt(time_str) ==
    LET s_match == Search(time_str, <<"s">>)
        ms_match == Search(time_str, <<"m", "s">>)
        seconds == IF s_match.found THEN IntOf(s_match.group) ELSE 0
        millis == IF ms_match.found THEN IntOf(ms_match.group) ELSE 0
    IN seconds * 1000 + millis

\* current_latency > latency_threshold_visual
LatencyHighOrEqual(current_latency, threshold) == current_latency >= threshold
LatencyHigh(current_latency, threshold) == current_latency > threshold

\* the first row of the reply without an avg-rtt key
NoRtt == <<"None">>
\* ping_result[0].get("avg-rtt", "0ms")
TimeStr(row) == IF row.avg_rtt = NoRtt THEN <<"0", "m", "s">> ELSE row.avg_rtt

\* result_data of the cycle
PingCycle(ping_result, threshold) ==
    IF ping_result.rows > 0 /\ ping_result.received = "1"
    THEN LET current_latency == ParseRtt(TimeStr(ping_result))
         IN PingResult(IF LatencyHigh(current_latency, threshold) THEN "high_latency" ELSE "ok",
                       current_latency)
    ELSE PingResult("timeout", 9999)

\* the avg-rtt values tried: every string of up to MaxRttLen of these
\* characters, and longer values RouterOS reports
RttChars == {"0", "1", "7", "s", "m", "u"}
RttValues ==
    UNION {[1..n -> RttChars] : n \in 0..MaxRttLen}
        \cup {<<"2", "s", "3", "5", "0", "m", "s">>, <<"7", "5", "m", "s">>,
              <<"1", "s", "5", "m", "s">>, <<"1", "m", "s", "5", "0", "0", "u", "s">>,
              <<"1", "5", "0", "m", "s">>, <<"1", "5", "1", "m", "s">>, NoRtt}
PingReplies ==
    {[rows |-> 0, received |-> "", avg_rtt |-> NoRtt]}
        \cup {[rows |-> 1, received |-> rc, avg_rtt |-> v] : rc \in {"0", "1"}, v \in RttValues}
\* config["latency_threshold_ms"], 150 when absent
Thresholds == {0, 1, 75, 150, 1000}

NoPingCall == [ping_result |-> [rows |-> 0, received |-> "", avg_rtt |-> NoRtt],
               latency_threshold_visual |-> 150, result_data |-> NoResult]
InitPing == ping_call = NoPingCall

\* api.get_resource("/").call("ping", ...) has returned
PingReply ==
    /\ ping_call.result_data = NoResult
    /\ ping_call' = [ping_call EXCEPT !.result_data =
                        PingCycle(ping_call.ping_result, ping_call.latency_threshold_visual)]
    /\ UNCHANGED <<fanVars, alertVars, storeVars, schedVars, vpnVars, wsVars, downVars, apiVars>>

NextParse == PingReply

(***************************************************************************)
(* websocket_endpoint                                                      *)
(***************************************************************************)
NoBase == [s \in SensorIds |-> 0]
\* a websocket_endpoint call and its locals.  gone: the client has closed
\* the connection; msg: the last client message taken.  History: handled
\* counts the client messages taken, mark is the length of outbox when the
\* last one was taken, base the
\* number of stored samples of every sensor when _send_initial_batch began.
NoMsg == [type |-> "", ids |-> {}, ok |-> TRUE]
NewConn == [pc |-> "new", owner |-> "", gone |-> FALSE, msg |-> NoMsg, handled |-> 0,
            mark |-> 0, sub_ids |-> SubSet({}), todo |-> << >>, items |-> << >>,
            base |-> NoBase]
InitWs ==
    /\ conn = [k \in Sinks |-> NewConn]
    /\ outbox = [k \in Sinks |-> << >>]

\* json.dumps({"type": ...}); sub and base are history of a sensor_batch:
\* the subscription it was built under and the samples stored when its
\* _send_initial_batch began
Msg(type) == [type |-> type, items |-> << >>, sub |-> SubNone, base |-> NoBase]
Batch(c) == [type |-> "sensor_batch", items |-> c.items, sub |-> c.sub_ids, base |-> c.base]

\* websocket.scope["subs"] = set() in ConnectionManager.connect; the
\* setdefault("subs", None) that follows finds the key
FirstSubsNone == SubNone
FirstSubs == SubSet({})

\* what the client can send; ok: sensor_ids is a list of ints
\* (subscribe_sensors), resource is sensors_latest (sync_request)
ClientMsgs ==
    {[type |-> "ping", ids |-> {}, ok |-> TRUE],
     [type |-> "subscribe_all", ids |-> {}, ok |-> TRUE],
     [type |-> "sync_request", ids |-> {}, ok |-> TRUE],
     [type |-> "sync_request", ids |-> {}, ok |-> FALSE],
     [type |-> "subscribe_sensors", ids |-> {}, ok |-> FALSE],
     [type |-> "other", ids |-> {}, ok |-> TRUE]}
        \cup {[type |-> "subscribe_sensors", ids |-> ids, ok |-> TRUE] : ids \in SUBSET SensorIds}

\* _owner_sensors: the tenant's sensors in the order of the table, cut down
\* to sensor_ids when the list is not empty
OwnedByAny(s, owner_id) == TRUE
OwnedBy(s, owner_id) == SensorOwner[s] = owner_id
RECURSIVE Ascending(_)
Ascending(S) == IF S = {} THEN << >> ELSE <<Lowest(S)>> \o Ascending(S \ {Lowest(S)})
OwnerSensors(owner_id, sub_ids) ==
    Ascending({s \in SensorIds :
                  /\ sensors[s] = "present"
                  /\ OwnedBy(s, owner_id)
                  /\ (~sub_ids.none /\ sub_ids.ids # {}) => s \in sub_ids.ids})

\* order_by(timestamp.desc()).limit(1); the rows of a sensor are stored in
\* the order of their timestamps
OldestRow(rows) == rows[1]
LatestRow(rows) == rows[Len(rows)]
\* the item of a sensor: its last row or the pending placeholder
Item(s) ==
    IF samples[s] # << >>
    THEN [sensor_id |-> s, sensor_type |-> SensorType[s], pending |-> FALSE,
          row |-> LatestRow(samples[s])]
    ELSE [sensor_id |-> s, sensor_type |-> SensorType[s], pending |-> TRUE,
          row |-> [ts |-> clock, result |-> NoResult]]

WsFrame == UNCHANGED <<pubs, sentTo, fbTo, alertVars, schedVars, vpnVars, pingVars, downVars, apiVars>>

\* finally: manager.disconnect(websocket)
WsClose(k, c) ==
    /\ conn' = [conn EXCEPT ![k] = [c EXCEPT !.pc = "closed", !.todo = << >>, !.items = << >>]]
    /\ active' = {it \in active : it[1] # k}
    /\ wsState' = [wsState EXCEPT ![k] = "closed"]
    /\ UNCHANGED outbox

\* await websocket.send_text(type) outside a try: sent, or the exception
\* of a closed connection ends the call
Send(k, c, type, pc) ==
    IF c.gone
    THEN WsClose(k, c)
    ELSE /\ conn' = [conn EXCEPT ![k] = [c EXCEPT !.pc = pc]]
         /\ outbox' = [outbox EXCEPT ![k] = Append(@, Msg(type))]
         /\ UNCHANGED <<active, wsState>>

\* _send_initial_batch up to its first await, the fetch_all of _owner_sensors
BatchBegin(k, c, sb) ==
    /\ conn' = [conn EXCEPT ![k] = [c EXCEPT !.pc = "b_list", !.sub_ids = sb, !.items = << >>,
                                              !.base = [s \in SensorIds |-> Len(samples[s])]]]
    /\ UNCHANGED <<active, wsState, outbox>>

\* the loop over the sensors is over: await websocket.send_text(batch)
\* inside try / except Exception
BatchSend(k, c) ==
    IF c.gone
    THEN /\ conn' = [conn EXCEPT ![k] = [c EXCEPT !.pc = "recv", !.todo = << >>, !.items = << >>]]
         /\ UNCHANGED <<active, wsState, outbox>>
    ELSE /\ conn' = [conn EXCEPT ![k] = [c EXCEPT !.pc = "b_send", !.todo = << >>, !.items = << >>]]
         /\ outbox' = [outbox EXCEPT ![k] = Append(@, Batch(c))]
         /\ UNCHANGED <<active, wsState>>

\* a client with a valid token connects: await websocket.accept()
WsOpen(k, t) ==
    /\ conn[k].pc = "new"
    /\ \A j \in Sinks : j < k => conn[j].pc # "new"
    /\ Cardinality({j \in Sinks : conn[j].pc # "new"}) < MaxConns
    /\ conn' = [conn EXCEPT ![k] = [NewConn EXCEPT !.pc = "accept", !.owner = t]]
    /\ sinkTenant' = [sinkTenant EXCEPT ![k] = t]
    /\ UNCHANGED <<active, subs, wsState, outbox, storeVars>>
    /\ WsFrame

\* accept returns: the rest of ConnectionManager.connect, then the welcome
WsAccepted(k) ==
    LET c == conn[k] IN
    /\ c.pc = "accept"
    /\ active' = active \cup {<<k, Norm(c.owner)>>}
    /\ subs' = [subs EXCEPT ![k] = FirstSubs]
    /\ wsState' = [wsState EXCEPT ![k] = "open"]
    /\ conn' = [conn EXCEPT ![k] = [c EXCEPT !.pc = "welcome"]]
    /\ outbox' = [outbox EXCEPT ![k] = Append(@, Msg("welcome"))]
    /\ UNCHANGED <<sinkTenant, storeVars>>
    /\ WsFrame

\* the welcome is sent: the ready
WsWelcomeSent(k) ==
    /\ conn[k].pc = "welcome"
    /\ Send(k, conn[k], "ready", "ready")
    /\ UNCHANGED <<subs, sinkTenant, storeVars>>
    /\ WsFrame

\* a ready is sent: _send_initial_batch
WsReadySent(k) ==
    /\ conn[k].pc = "ready"
    /\ BatchBegin(k, conn[k], subs[k])
    /\ UNCHANGED <<subs, sinkTenant, storeVars>>
    /\ WsFrame

\* fetch_all of _owner_sensors returns
WsListed(k) ==
    LET c == conn[k]
        c1 == [c EXCEPT !.todo = OwnerSensors(c.owner, c.sub_ids)]
    IN /\ c.pc = "b_list"
       /\ IF c1.todo = << >> THEN BatchSend(k, c1)
          ELSE /\ conn' = [conn EXCEPT ![k] = [c1 EXCEPT !.pc = "b_row"]]
               /\ UNCHANGED <<active, wsState, outbox>>
       /\ UNCHANGED <<subs, sinkTenant, storeVars>>
       /\ WsFrame

\* fetch_one of _latest_for_sensor returns
WsRow(k) ==
    LET c == conn[k]
        c1 == [c EXCEPT !.items = Append(@, Item(Head(c.todo))), !.todo = Tail(@)]
    IN /\ c.pc = "b_row"
       /\ IF c1.todo = << >> THEN BatchSend(k, c1)
          ELSE /\ conn' = [conn EXCEPT ![k] = c1]
               /\ UNCHANGED <<active, wsState, outbox>>
       /\ UNCHANGED <<subs, sinkTenant, storeVars>>
       /\ WsFrame

\* the batch, a pong or an error is sent: await websocket.receive_text()
WsSent(k) ==
    /\ conn[k].pc \in {"b_send", "reply"}
    /\ conn' = [conn EXCEPT ![k].pc = "recv"]
    /\ UNCHANGED <<active, subs, wsState, sinkTenant, outbox, storeVars>>
    /\ WsFrame

\* receive_text returns a message of the client
WsReceive(k, m) ==
    LET c == [conn[k] EXCEPT !.handled = @ + 1, !.msg = m, !.mark = Len(outbox[k])]
    IN /\ conn[k].pc = "recv"
       /\ ~conn[k].gone
       /\ conn[k].handled < MaxMsgs
       /\ CASE m.type = "ping" -> Send(k, c, "pong", "reply") /\ UNCHANGED subs
            [] m.type = "subscribe_sensors" ->
                  /\ subs' = [subs EXCEPT ![k] = IF m.ok THEN SubSet(m.ids) ELSE SubNone]
                  /\ Send(k, c, "ready", "ready")
            [] m.type = "subscribe_all" ->
                  /\ subs' = [subs EXCEPT ![k] = SubNone]
                  /\ Send(k, c, "ready", "ready")
            [] m.type = "sync_request" /\ m.ok -> BatchBegin(k, c, subs[k]) /\ UNCHANGED subs
            [] OTHER -> Send(k, c, "error", "reply") /\ UNCHANGED subs
       /\ UNCHANGED <<sinkTenant, storeVars>>
       /\ WsFrame

\* receive_text raises WebSocketDisconnect
WsDisconnected(k) ==
    /\ conn[k].pc = "recv"
    /\ conn[k].gone
    /\ WsClose(k, conn[k])
    /\ UNCHANGED <<subs, sinkTenant, storeVars>>
    /\ WsFrame

\* the client closes the connection
WsGone(k) ==
    /\ conn[k].pc \notin {"new", "accept", "closed"}
    /\ ~conn[k].gone
    /\ conn' = [conn EXCEPT ![k].gone = TRUE]
    /\ UNCHANGED <<active, subs, wsState, sinkTenant, outbox, storeVars>>
    /\ WsFrame

\* result_data of a cycle of the worker of sensor s
SampleValues(s) ==
    {ErrorResult(s), ProbeResult(IF SensorType[s] = "ping" THEN "reply" ELSE "link")}

\* a worker stores a sample of sensor s
InsertSample(s, r) ==
    /\ sensors[s] = "present"
    /\ Room
    /\ samples' = [samples EXCEPT ![s] = Append(@, [ts |-> clock, result |-> r])]
    /\ UNCHANGED <<sensors, sensor_cfg, monitor_row, device_row, device_vpn>>
    /\ UNCHANGED <<fanVars, wsVars>>
    /\ WsFrame

NextWs ==
    \/ \E k \in Sinks, t \in Tenants : WsOpen(k, t)
    \/ \E k \in Sinks : WsAccepted(k)
    \/ \E k \in Sinks : WsWelcomeSent(k)
    \/ \E k \in Sinks : WsReadySent(k)
    \/ \E k \in Sinks : WsListed(k)
    \/ \E k \in Sinks : WsRow(k)
    \/ \E k \in Sinks : WsSent(k)
    \/ \E k \in Sinks, m \in ClientMsgs : WsReceive(k, m)
    \/ \E k \in Sinks : WsDisconnected(k)
    \/ \E k \in Sinks : WsGone(k)
    \/ \E s \in SensorIds : \E r \in SampleValues(s) : InsertSample(s, r)

(***************************************************************************)
(* Requests on VPN profiles, monitors and sensors; every await of a        *)
(* statement is a step, the statement taking effect when it returns        *)
(***************************************************************************)
ApiFrame == UNCHANGED <<fanVars, alertVars, storeVars, schedVars, vpnVars, wsVars, pingVars, downVars>>
FreeIds(tbl) == {k \in DOMAIN tbl : tbl[k].row = "none"}
\* the request of slot i is answered with an HTTP status
Reply(r, code) == [r EXCEPT !.pc = "idle", !.status = code]
NewReq(op, pc, o, id, arg) ==
    [op |-> op, pc |-> pc, owner_id |-> o, id |-> id, arg |-> arg, status |-> 0]

\* .where((table.c.id == k) & (table.c.owner_id == owner_id)) finds a row
OwnedRowAny(tbl, k, o) == tbl[k].row = "row"
OwnedRow(tbl, k, o) == tbl[k].row = "row" /\ tbl[k].owner_id = o

\* ForeignKey("vpn_profiles.id") of devices.vpn_profile_id: a device row
\* may hold v
FkVpnNot(tbl, v) == TRUE
FkVpn(tbl, v) == v = NoProfile \/ tbl[v].row = "row"
\* some row of devices_table holds profile p
VpnInUse(devs, p) == \E d \in DevIds : devs[d].row = "row" /\ devs[d].vpn_profile_id = p

\* create_vpn_profile: the insert, is_default = False
CreateVpnProfile(o) ==
    /\ FreeIds(vpn_profiles) # {}
    /\ vpn_profiles' = [vpn_profiles EXCEPT ![Lowest(FreeIds(vpn_profiles))] =
                           [row |-> "row", owner_id |-> o, is_default |-> FALSE]]
    /\ UNCHANGED <<devices, monitors, sensor_rows, req>>
    /\ ApiFrame

\* update_vpn_profile with is_default = True: the update that clears
\* is_default on all profiles of the tenant has run
UpdVpnClear(i, o, p) ==
    /\ req[i].pc = "idle"
    /\ vpn_profiles' = [k \in VpnIds |->
                           IF vpn_profiles[k].row = "row" /\ vpn_profiles[k].owner_id = o
                           THEN [vpn_profiles[k] EXCEPT !.is_default = FALSE]
                           ELSE vpn_profiles[k]]
    /\ req' = [req EXCEPT ![i] = NewReq("update_vpn", "set", o, p, 1)]
    /\ UNCHANGED <<devices, monitors, sensor_rows>>
    /\ ApiFrame

\* update_vpn_profile: the update of the profile itself has run
UpdVpnSet(i) ==
    LET r == req[i] IN
    /\ r.op = "update_vpn" /\ r.pc = "set"
    /\ vpn_profiles' = IF OwnedRow(vpn_profiles, r.id, r.owner_id)
                       THEN [vpn_profiles EXCEPT ![r.id].is_default = TRUE]
                       ELSE vpn_profiles
    /\ req' = [req EXCEPT ![i] = Reply(r, 200)]
    /\ UNCHANGED <<devices, monitors, sensor_rows>>
    /\ ApiFrame

\* update_vpn_profile with is_default False or unset: one update
UpdVpnOther(i, o, p, unset) ==
    /\ req[i].pc = "idle"
    /\ vpn_profiles' = IF OwnedRow(vpn_profiles, p, o) /\ ~unset
                       THEN [vpn_profiles EXCEPT ![p].is_default = FALSE]
                       ELSE vpn_profiles
    /\ req' = [req EXCEPT ![i] = Reply(NewReq("update_vpn", "idle", o, p, 0), 200)]
    /\ UNCHANGED <<devices, monitors, sensor_rows>>
    /\ ApiFrame

\* delete_vpn_profile: the select of a device of the tenant that holds
\* the profile has returned
DelVpnCheck(i, o, p) ==
    /\ req[i].pc = "idle"
    /\ req' = [req EXCEPT ![i] =
                  IF \E d \in DevIds : OwnedRow(devices, d, o) /\ devices[d].vpn_profile_id = p
                  THEN Reply(NewReq("delete_vpn", "idle", o, p, 0), 400)
                  ELSE NewReq("delete_vpn", "delete", o, p, 0)]
    /\ UNCHANGED <<vpn_profiles, devices, monitors, sensor_rows>>
    /\ ApiFrame

\* delete_vpn_profile: the delete has run; it raises when a device row
\* still references the profile (foreign key)
DelVpnDelete(i) ==
    LET r == req[i] IN
    /\ r.op = "delete_vpn" /\ r.pc = "delete"
    /\ IF OwnedRow(vpn_profiles, r.id, r.owner_id)
       THEN IF \E d \in DevIds : devices[d].row = "row" /\ devices[d].vpn_profile_id = r.id
                                  /\ FkVpn(vpn_profiles, r.id)
            THEN /\ UNCHANGED vpn_profiles
                 /\ req' = [req EXCEPT ![i] = Reply(r, 500)]
            ELSE /\ vpn_profiles' = [vpn_profiles EXCEPT ![r.id] = [NoVpn EXCEPT !.row = "gone"]]
                 /\ req' = [req EXCEPT ![i] = Reply(r, 204)]
       ELSE /\ UNCHANGED vpn_profiles
            /\ req' = [req EXCEPT ![i] = Reply(r, 204)]
    /\ UNCHANGED <<devices, monitors, sensor_rows>>
    /\ ApiFrame

\* associate_vpn_to_maestro: the select of the device has returned
AssocDev(i, o, d, v) ==
    /\ req[i].pc = "idle"
    /\ req' = [req EXCEPT ![i] =
                  IF ~OwnedRow(devices, d, o)
                  THEN Reply(NewReq("associate_vpn", "idle", o, d, v), 404)
                  ELSE NewReq("associate_vpn", IF v # NoProfile THEN "vpn" ELSE "upd", o, d, v)]
    /\ UNCHANGED <<vpn_profiles, devices, monitors, sensor_rows>>
    /\ ApiFrame

\* associate_vpn_to_maestro: the select of the profile has returned
AssocVpn(i) ==
    LET r == req[i] IN
    /\ r.op = "associate_vpn" /\ r.pc = "vpn"
    /\ req' = [req EXCEPT ![i] =
                  IF OwnedRow(vpn_profiles, r.arg, r.owner_id)
                  THEN [r EXCEPT !.pc = "upd"] ELSE Reply(r, 404)]
    /\ UNCHANGED <<vpn_profiles, devices, monitors, sensor_rows>>
    /\ ApiFrame

\* associate_vpn_to_maestro: the update of the device has run; it raises
\* when the profile is gone (foreign key)
AssocUpd(i) ==
    LET r == req[i] IN
    /\ r.op = "associate_vpn" /\ r.pc = "upd"
    /\ IF ~FkVpn(vpn_profiles, r.arg)
       THEN /\ UNCHANGED devices
            /\ req' = [req EXCEPT ![i] = Reply(r, 500)]
       ELSE /\ devices' = IF OwnedRow(devices, r.id, r.owner_id)
                          THEN [devices EXCEPT ![r.id].vpn_profile_id = r.arg]
                          ELSE devices
            /\ req' = [req EXCEPT ![i] = Reply(r, 200)]
    /\ UNCHANGED <<vpn_profiles, monitors, sensor_rows>>
    /\ ApiFrame

\* create_monitor: the select of the device has returned
MonDev(i, o, d) ==
    /\ req[i].pc = "idle"
    /\ req' = [req EXCEPT ![i] =
                  IF OwnedRow(devices, d, o)
                  THEN NewReq("create_monitor", "ins", o, d, 0)
                  ELSE Reply(NewReq("create_monitor", "idle", o, d, 0), 404)]
    /\ UNCHANGED <<vpn_profiles, devices, monitors, sensor_rows>>
    /\ ApiFrame

\* create_monitor: the insert has run; it raises when the device has a
\* monitor (unique device_id)
MonIns(i) ==
    LET r == req[i] IN
    /\ r.op = "create_monitor" /\ r.pc = "ins"
    /\ IF \E m \in MonIds : monitors[m].row = "row" /\ monitors[m].device_id = r.id
       THEN /\ UNCHANGED monitors
            /\ req' = [req EXCEPT ![i] = Reply(r, 400)]
       ELSE /\ FreeIds(monitors) # {}
            /\ monitors' = [monitors EXCEPT ![Lowest(FreeIds(monitors))] =
                               [row |-> "row", owner_id |-> r.owner_id, device_id |-> r.id]]
            /\ req' = [req EXCEPT ![i] = Reply(r, 201)]
    /\ UNCHANGED <<vpn_profiles, devices, sensor_rows>>
    /\ ApiFrame

\* add_sensor_to_monitor: the select of the monitor has returned
SenMon(i, o, m) ==
    /\ req[i].pc = "idle"
    /\ req' = [req EXCEPT ![i] =
                  IF OwnedRow(monitors, m, o)
                  THEN NewReq("add_sensor", "ins", o, m, 0)
                  ELSE Reply(NewReq("add_sensor", "idle", o, m, 0), 404)]
    /\ UNCHANGED <<vpn_profiles, devices, monitors, sensor_rows>>
    /\ ApiFrame

\* add_sensor_to_monitor: the insert has run, owner_id = the caller
SenIns(i) ==
    LET r == req[i] IN
    /\ r.op = "add_sensor" /\ r.pc = "ins"
    /\ FreeIds(sensor_rows) # {}
    /\ sensor_rows' = [sensor_rows EXCEPT ![Lowest(FreeIds(sensor_rows))] =
                          [row |-> "row", owner_id |-> r.owner_id, monitor_id |-> r.id,
                           name |-> "a", by |-> r.owner_id]]
    /\ req' = [req EXCEPT ![i] = Reply(r, 201)]
    /\ UNCHANGED <<vpn_profiles, devices, monitors>>
    /\ ApiFrame

\* update_sensor: the select of the sensor joined with its monitor, of the
\* caller, has returned
SupChk(i, o, s) ==
    /\ req[i].pc = "idle"
    /\ req' = [req EXCEPT ![i] =
                  IF /\ sensor_rows[s].row = "row"
                     /\ OwnedRow(monitors, sensor_rows[s].monitor_id, o)
                  THEN NewReq("update_sensor", "upd", o, s, 0)
                  ELSE Reply(NewReq("update_sensor", "idle", o, s, 0), 404)]
    /\ UNCHANGED <<vpn_profiles, devices, monitors, sensor_rows>>
    /\ ApiFrame

\* update_sensor: the update of name and config has run (by: history, the
\* tenant whose request wrote the row last)
SupSet(i) ==
    LET r == req[i] IN
    /\ r.op = "update_sensor" /\ r.pc = "upd"
    /\ sensor_rows' = IF sensor_rows[r.id].row = "row"
                      THEN [sensor_rows EXCEPT ![r.id].name = "b", ![r.id].by = r.owner_id]
                      ELSE sensor_rows
    /\ req' = [req EXCEPT ![i] = Reply(r, 200)]
    /\ UNCHANGED <<vpn_profiles, devices, monitors>>
    /\ ApiFrame

\* requests of the tenants on their VPN profiles and devices
NextProfiles ==
    \/ \E o \in Tenants : CreateVpnProfile(o)
    \/ \E i \in ReqIds, o \in Tenants, p \in VpnIds : UpdVpnClear(i, o, p)
    \/ \E i \in ReqIds : UpdVpnSet(i)
    \/ \E i \in ReqIds, o \in Tenants, p \in VpnIds, unset \in BOOLEAN : UpdVpnOther(i, o, p, unset)
    \/ \E i \in ReqIds, o \in Tenants, p \in VpnIds : DelVpnCheck(i, o, p)
    \/ \E i \in ReqIds : DelVpnDelete(i)
    \/ \E i \in ReqIds, o \in Tenants, d \in DevIds, v \in VpnIds \cup {NoProfile} : AssocDev(i, o, d, v)
    \/ \E i \in ReqIds : AssocVpn(i)
    \/ \E i \in ReqIds : AssocUpd(i)

\* requests of the tenants on monitors and sensors
NextOwner ==
    \/ \E i \in ReqIds, o \in Tenants, d \in DevIds : MonDev(i, o, d)
    \/ \E i \in ReqIds : MonIns(i)
    \/ \E i \in ReqIds, o \in Tenants, m \in MonIds : SenMon(i, o, m)
    \/ \E i \in ReqIds : SenIns(i)
    \/ \E i \in ReqIds, o \in Tenants, s \in RowIds : SupChk(i, o, s)
    \/ \E i \in ReqIds : SupSet(i)

InitParse ==
    /\ InitFan /\ InitAlert /\ InitStore({1}, NoProfile, {"good"}) /\ InitSched /\ InitVpnState
    /\ InitWs /\ InitDown /\ InitApi
    /\ ping_call \in {[ping_result |-> r, latency_threshold_visual |-> th, result_data |-> NoResult] :
                        r \in PingReplies, th \in Thresholds}

InitSocket ==
    /\ InitFan /\ InitAlert /\ InitStore(SensorIds, NoProfile, {"good"}) /\ InitSched
    /\ InitVpnState /\ InitWs /\ InitPing /\ InitDown /\ InitApi

InitProbe == InitFan /\ InitAlert /\ InitStore(SensorIds, NoProfile, {"good"}) /\ InitSched /\ InitVpnState /\ InitWs /\ InitPing /\ InitDown /\ InitApi

InitTest == InitFan /\ InitAlert /\ InitStore({}, 1, {"good"}) /\ InitSched /\ InitVpnState /\ InitWs /\ InitPing /\ InitDown /\ InitApi

InitVpn == InitFan /\ InitAlert /\ InitStore(SensorIds, 1, Configs) /\ InitSched /\ InitVpnState /\ InitWs /\ InitPing /\ InitDown /\ InitApi

InitShutdown == InitFan /\ InitAlert /\ InitStore(SensorIds, 1, {"good"}) /\ InitSched /\ InitVpnState /\ InitWs /\ InitPing /\ InitDown /\ InitApi

Init == InitFan /\ InitAlert /\ InitStore({1}, NoProfile, {"good"}) /\ InitSched /\ InitVpnState /\ InitWs /\ InitPing /\ InitDown /\ InitApi

SpecFan == Init /\ [][NextFan]_vars

SpecAlert == Init /\ [][NextAlert]_vars

SpecRules == Init /\ [][NextRules]_vars

SpecRelaunch == Init /\ [][NextRelaunch]_vars

SpecSched == Init /\ [][NextSched]_vars

SpecStamp == Init /\ [][NextStamp]_vars

NextTest ==
    \/ \E p \in Profiles : TestBegin(p)
    \/ \E t \in TaskIds : TestSleep(t)
    \/ \E t \in TaskIds : TestDone(t)
    \/ \E t \in TaskIds : EnsChk(t)
    \/ \E t \in TaskIds, found \in BOOLEAN : EnsDb(t, found)
    \/ \E t \in TaskIds, ok \in BOOLEAN : EnsUp(t, ok)
    \/ \E t \in TaskIds : EnsShow(t)
    \/ \E t \in TaskIds : EnsDown(t)
    \/ \E t \in TaskIds, ok \in BOOLEAN : EnsUp2(t, ok)
    \/ \E t \in TaskIds : EnsPoll(t)
    \/ \E p \in Profiles : IfaceDrop(p)

SpecTest == InitTest /\ [][NextTest]_vars

SpecParse == InitParse /\ [][NextParse]_vars

SpecWs == InitSocket /\ [][NextWs]_vars

SpecVpn == InitVpn /\ [][NextVpn]_vars
SpecDown == InitShutdown /\ [][NextDown]_vars
SpecProfiles == Init /\ [][NextProfiles]_vars
SpecOwner == Init /\ [][NextOwner]_vars

SpecProbe == InitProbe /\ [][NextProbe]_vars


(***************************************************************************)
(* Event fan-out: properties                                               *)
(***************************************************************************)
Sends(p, k) == sentTo[p][k] + fbTo[p][k]

\* the sinks of call p the exactly-once property speaks of: registered and
\* open when the call began and ever since, of the tenant published for, and
\* subscribed to all or to the sensor of the event
Entitled(p) ==
    {k \in pubs[p].stayed \cap pubs[p].subscribed : sinkTenant[k] = pubs[p].owner}

\* C4: in every publish(tenant, E), a sink of that tenant that stays
\* connected during the call and is subscribed to all or to E.sensor_id is
\* sent E exactly once: never twice while the call runs, and once when the
\* call has returned, whether or not the fallback pass ran.
C4_ExactlyOnce ==
    \A p \in PubIds : \A k \in Entitled(p) :
        /\ Sends(p, k) <= 1
        /\ pubs[p].pc = "done" => Sends(p, k) = 1

C4_Witness ==
    \E p \in PubIds : \E k \in Entitled(p) :
        /\ pubs[p].pc = "done"
        /\ Sends(p, k) = 1
        /\ \E j \in Sinks : j # k /\ <<j, Norm(sinkTenant[j])>> \in active

\* the owner pass sends an event only to sinks of the tenant that owns the
\* sensor
OwnerPassSameTenant ==
    \A p \in PubIds, k \in Sinks :
        sentTo[p][k] > 0 => sinkTenant[k] = pubs[p].owner

\* C5 (as claimed): a sink of tenant T is sent an event of another tenant's
\* sensor only by the fallback pass, and the fallback pass runs only in a
\* publish call for which no tenant-matching sink exists.
C5_FallbackOnlyWithoutMatchingSink ==
    /\ OwnerPassSameTenant
    /\ \A p \in PubIds : pubs[p].ranFb => pubs[p].matchAtStart = {}

\* C5 (amended): a sink of tenant T is sent an event of another tenant's
\* sensor only by the fallback pass, and the fallback pass runs only in a
\* publish call whose owner pass delivered the event to no sink (no
\* tenant-matching sink was registered, or every send to one raised).
C5_FallbackOnlyAfterZeroDeliveries ==
    /\ OwnerPassSameTenant
    /\ \A p \in PubIds : pubs[p].ranFb => \A k \in Sinks : sentTo[p][k] = 0

C5_Witness ==
    \E p \in PubIds, k \in Sinks :
        /\ pubs[p].ranFb
        /\ pubs[p].matchAtStart # {}
        /\ fbTo[p][k] > 0
        /\ sinkTenant[k] # pubs[p].owner

\* the subscription is an explicit non-empty set of sensor ids without sid
ExplicitOther(sb, sid) == ~sb.none /\ sb.ids # {} /\ sid \notin sb.ids

\* C14: in the tenant-matched pass of publish(tenant, E), E is sent only to
\* sinks whose subscription is `all` or contains E.sensor_id: a sink of the
\* tenant that subscribed to an explicit non-empty set of sensor ids not
\* containing E.sensor_id (and kept that subscription) is not sent E.
C14_OwnerPassHonoursSubscription ==
    \A p \in PubIds, k \in Sinks :
        (sentTo[p][k] > 0 /\ k \in pubs[p].steady)
            => ~ExplicitOther(subs[k], pubs[p].sid)

\* subscription `all`, `empty`, or containing sid
FallbackEligible(sb, sid) == sb.none \/ sb.ids = {} \/ sid \in sb.ids

C16_SendErrorDetaches ==
    \A p \in PubIds :
        /\ \A k \in pubs[p].errs : \A it \in active : it[1] # k
        /\ (pubs[p].pc = "done" /\ pubs[p].errs # {}) =>
              \A k \in pubs[p].stayed :
                 /\ sinkTenant[k] = pubs[p].owner => sentTo[p][k] = 1
                 /\ (pubs[p].ranFb /\ k \in pubs[p].steady
                       /\ FallbackEligible(subs[k], pubs[p].sid)) => fbTo[p][k] = 1

C16_Witness ==
    \E p \in PubIds, k \in Sinks, j \in Sinks :
        /\ pubs[p].pc = "done"
        /\ j \in pubs[p].errs
        /\ k \in pubs[p].stayed
        /\ Sends(p, k) = 1

(***************************************************************************)
(* Alert evaluator: properties                                             *)
(***************************************************************************)
CooldownOf(key) ==
    LET rules == {j \in 1..Len(AlertConfigs[key[1]]) : AlertConfigs[key[1]][j].type = key[2]}
    IN  IF rules = {} THEN 0
        ELSE AlertConfigs[key[1]][CHOOSE j \in rules : TRUE].cooldown_minutes

\* C3: any two Notifier dispatches of the rule of type T on sensor S are at
\* least its cooldown apart, over any sequence of cycles, also after a
\* cancellation or a failed AlertRecord insert.
C3_FiresCooldownApart ==
    \A key \in AlertKeys : \A n \in 1..Len(notified[key]) :
        n > 1 => notified[key][n] - notified[key][n - 1] >= CooldownOf(key)

\* C37: a triggered alert gives one Notifier call, one AlertRecord and
\* last_fire = the evaluation time, together: whenever no evaluation of the
\* sensor is in progress (it returned, raised or was cancelled), every
\* (sensor, alert type) has as many AlertRecords as Notifier calls and a
\* last_fire not older than its latest Notifier call.
C37_NotifyRecordLastFireTogether ==
    \A key \in AlertKeys :
        ev[key[1]].pc = "idle" =>
            /\ alert_history[key] = Len(notified[key])
            /\ notified[key] # << >> =>
                  /\ last_alert_times[key] # NoTime
                  /\ last_alert_times[key] >= notified[key][Len(notified[key])]

\* the call of sensor s is at the notification of an alert of this type
Notifying(s, type) ==
    ev[s].pc \in {"notify", "insert"} /\ ev[s].alerts[ev[s].i].type = type

\* C18: with a speed_change alert and a recorded speed "1Gbps", an
\* ethernet cycle in which the link is down and no speed is reported does
\* not fire the alert (a later cycle reporting "100Mbps" fires it once):
\* speed_change is never notified for a sample that reports no speed.
C18_NoFireWithoutSpeed ==
    \A s \in SensorIds :
        Notifying(s, "speed_change") => ev[s].result.speed \notin {"N/A", NoSpeed}

\* C19: a speed_change alert never fires on the first sample ever evaluated
\* for a sensor; it triggers only when a last speed is recorded and differs
\* from the current one, over any order of starts, restarts and config
\* edits.
C19_SpeedChangeNeedsLastSpeed ==
    \A s \in SensorIds :
        Notifying(s, "speed_change") =>
            /\ last_known_statuses[s] # NoSpeed
            /\ last_known_statuses[s] # ev[s].result.speed

C19_Witness ==
    \E s \in SensorIds :
        /\ Notifying(s, "speed_change")
        /\ last_known_statuses[s] = "1Gbps"
        /\ ev[s].result.speed = "100Mbps"

\* C20: after every evaluate(sensor, sample) call whose sample includes a
\* speed field, the recorded last speed of the sensor equals the sample's
\* speed, whether an alert triggered, was skipped by cooldown, did not
\* trigger, or the alerts list is empty.
C20_LastSpeedRecorded ==
    \A s \in SensorIds :
        (ev[s].pc = "idle" /\ ev[s].result.hasSpeed)
            => last_known_statuses[s] = ev[s].result.speed

(***************************************************************************)
(* Scheduler: properties                                                   *)
(***************************************************************************)
Running(t) == Live(tasks[t]) /\ ~tasks[t].cancelled

\* C1: at every moment the registry holds at most one worker per sensor S,
\* and every other worker task ever started for S has already been
\* cancelled (or has finished): a task that is still to run or running
\* and not cancelled is the one registered for its sensor.
C1_OnlyRegisteredWorkerRuns ==
    \A t \in TaskIds : Running(t) => running_tasks[tasks[t].sid] = t

C1_Witness ==
    \E t \in TaskIds, u \in TaskIds :
        /\ t # u
        /\ tasks[t].sid = tasks[u].sid
        /\ Running(t)
        /\ running_tasks[tasks[t].sid] = t
        /\ tasks[u].cancelled
        /\ Live(tasks[u])

\* C6: after delete_sensor(S) returns, no worker for S is registered and
\* none is running, and none is started afterwards by a launch(S) that was
\* in flight when the delete ran.
C6_NoWorkerAfterDelete ==
    \A s \in delReturned :
        /\ running_tasks[s] = NoTask
        /\ \A t \in TaskIds : tasks[t].sid = s => ~Running(t)

\* C7: whenever a sensor row leaves the store (delete_sensor, deleting its
\* monitor, deleting its device) its worker is cancelled and removed from
\* the registry: outside a delete_sensor call no registered worker refers
\* to a sensor that is not in the store.
C7_RegisteredImpliesRow ==
    delPending = {} =>
        \A s \in SensorIds : running_tasks[s] # NoTask => sensors[s] = "present"

\* C10: for every sensor S the samples of S are stored in non-decreasing
\* timestamp order, over any sequence of cycles, restarts and
\* reconfigurations of S.
C10_SamplesOrdered ==
    \A s \in SensorIds : \A i \in 1..Len(samples[s]) : \A j \in 1..Len(samples[s]) :
        i < j => samples[s][i].ts <= samples[s][j].ts

C10_Witness ==
    \E s \in SensorIds :
        /\ Len(samples[s]) >= 2
        /\ samples[s][1].ts < samples[s][2].ts
        /\ \E t \in TaskIds : tasks[t].sid = s /\ tasks[t].cancelled /\ tasks[t].pc = "done"
        /\ \E t \in TaskIds : tasks[t].sid = s /\ Running(t)

\* the condition the rule of an alert puts on a sample
TimeoutRule(result) == result.status = "timeout"
HighLatencyRule(alert, result) ==
    result.status = "ok" /\ result.latency_ms > alert.threshold_ms
TrafficRule(alert, result) ==
    LET limit == alert.threshold_mbps * 1000000
    IN  CASE alert.direction = "any" -> result.rx_bitrate > limit \/ result.tx_bitrate > limit
          [] alert.direction = "rx" -> result.rx_bitrate > limit
          [] alert.direction = "tx" -> result.tx_bitrate > limit
RuleOf(alert, result) ==
    CASE alert.type = "timeout" -> TimeoutRule(result)
      [] alert.type = "high_latency" -> HighLatencyRule(alert, result)
      [] alert.type = "traffic_threshold" -> TrafficRule(alert, result)
\* alerts of these types trigger exactly on their rule: the alert a call
\* notifies satisfies its rule, and when a call has returned, every alert
\* whose rule the sample satisfies has fired in it or was in its cooldown
TriggersOnRule(types) ==
    \A s \in SensorIds :
        LET e == ev[s] IN
        /\ (e.pc \in {"notify", "insert"} /\ e.alerts[e.i].type \in types)
              => RuleOf(e.alerts[e.i], e.result)
        /\ e.pc = "idle" =>
              \A j \in 1..Len(e.alerts) :
                  (e.alerts[j].type \in types /\ RuleOf(e.alerts[j], e.result))
                      => InCooldown(last_alert_times[<<s, e.alerts[j].type>>], e.now,
                                    e.alerts[j].cooldown_minutes)

\* C21: outside its cooldown a timeout alert triggers iff the sample status
\* is timeout, and a high_latency alert triggers iff the status is ok and
\* latency_ms > threshold_ms; a sample with status high_latency or timeout
\* never triggers a high_latency alert.
C21_PingAlertRules == TriggersOnRule({"timeout", "high_latency"})

C21_Witness ==
    /\ ev[1].pc = "idle"
    /\ ev[1].alerts = AlertConfigs[1]
    /\ ev[1].result = PingResult("high_latency", 200)
    /\ last_alert_times[<<1, "high_latency">>] = NoTime
    /\ last_alert_times[<<1, "timeout">>] = 0
    /\ Len(notified[<<1, "timeout">>]) = 1

\* C22: outside its cooldown a traffic_threshold alert with threshold_mbps M
\* triggers iff, for direction any, rx_bitrate or tx_bitrate is above
\* M*1_000_000, for direction rx, rx_bitrate is, for direction tx,
\* tx_bitrate is.
C22_TrafficAlertRule == TriggersOnRule({"traffic_threshold"})

C22_Witness ==
    /\ ev[2].pc = "idle"
    /\ ev[2].alerts = TrafficOf("rx")
    /\ ev[2].result = EthResult("link_up", "1Gbps", 0, 2000000)
    /\ last_alert_times[<<2, "traffic_threshold">>] = NoTime

\* C23: the last-fire time of (sensor_id, alert_type) survives restarts,
\* config edits and relaunches of the worker: an alert that fired at time t
\* does not fire again before t + cooldown.
C23_NoRefireAfterRelaunch ==
    \A key \in AlertKeys : \A m \in 1..Len(notified[key]) : \A n \in 1..Len(notified[key]) :
        m < n => notified[key][n] >= notified[key][m] + CooldownOf(key)

\* C24: send_notification sends only through a channel whose owner is the
\* owner of the sensor's device; for a channel_id of another tenant or of
\* no channel it sends nothing and returns to its caller without an error.
C24_OnlyOwnChannels ==
    /\ [](\A d \in dispatched : d[2] \in DOMAIN ChannelOwner /\ ChannelOwner[d[2]] = SensorOwner[d[1]])
    /\ [][\A s \in SensorIds :
            (ev[s].pc = "notify" /\ ev'[s].pc # "notify") =>
                LET c == ev[s].alerts[ev[s].i].channel_id IN
                /\ ev'[s].pc = "insert"
                /\ IF c \in DOMAIN ChannelOwner /\ ChannelOwner[c] = SensorOwner[s]
                   THEN dispatched' = dispatched \cup {<<s, c>>}
                   ELSE UNCHANGED <<dispatched, notified>>]_vars

C24_Witness ==
    /\ ev[1].pc = "insert"
    /\ ev[1].alerts = TimeoutVia(9)
    /\ dispatched = {<<2, 8>>}

(***************************************************************************)
(* Worker cycles: properties                                               *)
(***************************************************************************)
IsPing(r) == r.sid \in SensorIds /\ SensorType[r.sid] = "ping"
IsEthernet(r) == r.sid \in SensorIds /\ SensorType[r.sid] = "ethernet"
TimeoutNull == PingResult("timeout", NoLatency)
LinkDown == EthResult("link_down", "N/A", 0, 0)
\* the step stores exactly the row of task record r for its sensor
Stores(r) == samples' = [samples EXCEPT ![r.sid] = Append(@, [ts |-> r.ts, result |-> r.result_data])]

C12_FailedCallsGiveLinkDown ==
    \A t \in TaskIds :
        (/\ IsEthernet(tasks[t])
         /\ tasks[t].probe \in {"calls_fail", "raise"}
         /\ tasks[t].pc \in {"write", "publish", "alerts", "x_write", "x_publish", "x_alerts"})
            => tasks[t].result_data = LinkDown

\* C13: a session is opened for an IP only when none is pooled for it and
\* an invalidated entry is closed, so the sessions that are open are
\* exactly the pooled ones: a session exists only between its open and
\* the next error on its IP.
C13_OpenSessionsArePooled ==
    open_pools = IF DeviceIp \in connection_pools THEN 1 ELSE 0

\* C38: under any interleaving of the workers that share the origin IP,
\* the RouterOS sessions created and not yet disconnected are no more than
\* the entries of the pool: every session a worker created is the pool
\* entry of its IP or has been disconnected.
C38_NoSessionOutsidePool ==
    open_pools <= Cardinality(connection_pools)

\* C17: when the device answers a ping cycle without error but with
\* received = 0, the sample persisted and published for the cycle is
\* {status timeout, latency_ms null}.
C17_NoReplySampleHasNullLatency ==
    \A t \in TaskIds :
        (tasks[t].probe = "no_reply" /\ tasks[t].pc \in {"write", "publish", "alerts"})
            => tasks[t].result_data = TimeoutNull

\* the entries of a cycle history with operation op
Ops(log, op) == {i \in 1..Len(log) : log[i].op = op}
\* a sample write of the current cycle raised
Lost(r) == Ops(r.cycle, "lost") # {}

\* C40: a probe cycle never persists more than one sample nor publishes
\* more than one event, whichever step raises: it never stores both a
\* successful sample and a degraded one.
C40_OneSampleOneEventPerCycle ==
    \A t \in TaskIds :
        /\ Cardinality(Ops(tasks[t].cycle, "persist")) <= 1
        /\ Cardinality(Ops(tasks[t].cycle, "publish")) <= 1

\* C36 (as stated): in every cycle an event is published only right after
\* the sample with the same values was persisted, and alerts are evaluated
\* only right after the event with the same values was published.
C36_PersistPublishAlerts ==
    \A t \in TaskIds :
        LET log == tasks[t].cycle IN
        \A i \in 1..Len(log) :
            /\ log[i].op = "publish" =>
                  (i > 1 /\ log[i - 1] = [op |-> "persist", result |-> log[i].result])
            /\ log[i].op = "alerts" =>
                  (i > 1 /\ log[i - 1] = [op |-> "publish", result |-> log[i].result])

\* C36 (amended): in every cycle an event is published only right after
\* the write of the sample with the same values, and alerts are evaluated
\* only right after the event with the same values was published; the
\* write stored the sample, except that run_ping_monitor publishes its
\* degraded sample also when the insert of that sample raised.
C36_WritePublishAlerts ==
    \A t \in TaskIds :
        LET log == tasks[t].cycle IN
        \A i \in 1..Len(log) :
            /\ log[i].op = "publish" =>
                  /\ i > 1
                  /\ \/ log[i - 1] = [op |-> "persist", result |-> log[i].result]
                     \/ /\ log[i - 1] = [op |-> "lost", result |-> log[i].result]
                        /\ IsPing(tasks[t])
                        /\ log[i].result = TimeoutNull
            /\ log[i].op = "alerts" =>
                  (i > 1 /\ log[i - 1] = [op |-> "publish", result |-> log[i].result])

\* a successful and a degraded cycle of both kinds of worker are over
C36_Witness ==
    /\ \E t \in TaskIds :
          /\ IsPing(tasks[t]) /\ tasks[t].pc = "sleep"
          /\ tasks[t].cycle = << [op |-> "persist", result |-> PingResult("ok", 30)],
                                 [op |-> "publish", result |-> PingResult("ok", 30)],
                                 [op |-> "alerts", result |-> PingResult("ok", 30)] >>
    /\ \E t \in TaskIds :
          /\ IsEthernet(tasks[t]) /\ tasks[t].pc = "sleep"
          /\ tasks[t].cycle = << [op |-> "persist", result |-> LinkDown],
                                 [op |-> "publish", result |-> LinkDown],
                                 [op |-> "alerts", result |-> LinkDown] >>

\* C35: a sample write that raises does not end the worker: the step in
\* which the insert raises leaves the worker in its cycle (the except path
\* or the sleep), the worker stays in its loop up to the sleep, and from
\* the sleep it enters the next cycle unless it was cancelled or its
\* sensor is no longer registered; for both kinds of worker and for the
\* write of the normal and of the degraded sample.
C35_WriteFailureAbsorbed ==
    [][\A t \in TaskIds :
         LET r == tasks[t]
             q == tasks'[t]
         IN /\ (Cardinality(Ops(q.cycle, "lost")) > Cardinality(Ops(r.cycle, "lost"))) =>
                  /\ r.pc \in {"write", "x_write"}
                  /\ q.pc \in {"x_write", "x_publish", "sleep"}
            /\ (Lost(r) /\ ~r.cancelled /\ r.pc # "sleep") => q.pc \in CyclePcs
            /\ (Lost(r) /\ ~r.cancelled /\ r.pc = "sleep" /\ q.pc # "sleep") =>
                  \/ q.pc \in {"cred", "write", "x_write"} /\ q.cycle = << >>
                  \/ q.pc = "done" /\ running_tasks[r.sid] = NoTask]_vars

\* a ping worker and an ethernet worker each reached the sleep of a cycle
\* in which the insert of the normal and of the degraded sample raised
C35_Witness ==
    /\ \E t \in TaskIds :
          /\ IsPing(tasks[t]) /\ tasks[t].pc = "sleep"
          /\ Cardinality(Ops(tasks[t].cycle, "lost")) = 2
    /\ \E t \in TaskIds :
          /\ IsEthernet(tasks[t]) /\ tasks[t].pc = "sleep"
          /\ Cardinality(Ops(tasks[t].cycle, "lost")) = 2

(***************************************************************************)
(* WireGuard tunnels: properties                                           *)
(***************************************************************************)
\* no ensure_vpn_up call in progress (release_vpn does not suspend)
Quiescent == \A t \in TaskIds : tasks[t].pc \notin EnsurePcs

\* the live workers that acquired profile p and have not released it
Holders(p) ==
    {t \in TaskIds : /\ Live(tasks[t])
                     /\ tasks[t].pid = p
                     /\ tasks[t].acquired
                     /\ tasks[t].releases = 0}

\* C2: in every quiescent state, for each profile P the recorded refcount
\* of P equals the number of live workers that acquired P and have not yet
\* released it, also when several workers call ensureUp(P) concurrently.
C2_RefcountCountsHolders ==
    Quiescent =>
        \A p \in Profiles : RefcountIn(VPN_STATE, vpnObj, p) = Cardinality(Holders(p))

Terminated(t) == tasks[t].pc \in {"done", "failed"}

\* C8: a worker that acquired a tunnel reference calls release exactly once
\* when it terminates, wherever in its cycle it is cancelled; a worker that
\* exits before acquiring never calls release.
C8_ReleaseOnceIffAcquired ==
    \A t \in TaskIds :
        /\ tasks[t].releases <= 1
        /\ tasks[t].releases = 1 => tasks[t].acquired /\ Terminated(t)
        /\ (Terminated(t) /\ tasks[t].acquired) => tasks[t].releases = 1
        /\ ~tasks[t].acquired => tasks[t].releases = 0

C8_Witness ==
    \E t \in TaskIds, u \in TaskIds :
        /\ tasks[t].pc = "done" /\ tasks[t].cancelled
        /\ tasks[t].acquired /\ tasks[t].releases = 1
        /\ tasks[u].pc = "failed" /\ tasks[u].releases = 0

\* C9: a successful ensureUp(P) followed by release(P), with no other call
\* on P in between, leaves P's refcount equal to its value before the
\* ensureUp (an unknown profile counting as 0) and leaves up = true.
C9_EnsureReleaseRoundTrip ==
    \A t \in TaskIds :
        (tasks[t].pc = "done" /\ tasks[t].acquired /\ tasks[t].releases = 1 /\ tasks[t].clean)
            => (tasks[t].post = tasks[t].pre /\ tasks[t].postUp)

C9_Witness ==
    \E t \in TaskIds :
        /\ tasks[t].pc = "done" /\ tasks[t].acquired /\ tasks[t].releases = 1
        /\ tasks[t].clean
        /\ tasks[t].pre >= 1
        /\ tasks[t].post = tasks[t].pre

\* a release_vpn(P) call that is not in the step that ends the caller's own
\* ensure_vpn_up
ReleaseStep(t) ==
    /\ tasks[t].pc \notin EnsurePcs
    /\ tasks[t].pid # NoProfile
    /\ \/ tasks'[t].releases = tasks[t].releases + 1
       \/ tasks[t].pc = "t_cred" /\ tasks'[t].pc = "none"

\* C31: when teardown_all_vpns completes, wg-quick down has been issued for
\* every profile of the VPN state map and every such profile is marked
\* up = False.
C31_TeardownMarksAllDown ==
    [][(shutdown_call.pc # "done" /\ shutdown_call'.pc = "done") =>
          \A p \in Profiles :
              VPN_STATE'[p] # NoObj =>
                  /\ p \in shutdown_call'.issued
                  /\ ~vpnObj'[VPN_STATE'[p]].up]_vars

\* C30: release_vpn(P) lowers P's refcount by exactly one, or leaves it 0
\* when it is 0, so no refcount is ever negative; it leaves P's entry in
\* VPN_STATE, leaves its up flag as it is and leaves the interface alone,
\* also when the refcount reaches 0.
C30_ReleaseFloorsAtZero ==
    /\ [](\A o \in ObjIds : vpnObj[o].refcount >= 0)
    /\ [][\A t \in TaskIds : ReleaseStep(t) =>
             LET p == tasks[t].pid
                 o == VPN_STATE[p]
             IN /\ VPN_STATE' = VPN_STATE
                /\ ifaceUp' = ifaceUp
                /\ o # NoObj =>
                      /\ vpnObj'[o].up = vpnObj[o].up
                      /\ vpnObj'[o].refcount =
                            IF vpnObj[o].refcount = 0 THEN 0 ELSE vpnObj[o].refcount - 1]_vars

C30_Witness ==
    \E t \in TaskIds :
        /\ tasks[t].pc = "done" /\ tasks[t].releases = 1
        /\ tasks[t].post = 0 /\ tasks[t].postUp
        /\ VPN_STATE[tasks[t].pid] # NoObj
        /\ ifaceUp[tasks[t].pid]

\* C26: on attach the websocket is registered for its tenant with the
\* empty subscription, and welcome, ready and sensor_batch are sent to it in
\* that order before any message of the client is processed.
C26_AttachHandshake ==
    \A k \in Sinks :
        LET c == conn[k]
            o == outbox[k]
        IN /\ c.pc \notin {"new", "accept"} => (Len(o) >= 1 /\ o[1].type = "welcome")
           /\ Len(o) >= 2 => o[2].type = "ready"
           /\ Len(o) >= 3 => o[3].type = "sensor_batch"
           /\ c.handled > 0 => c.mark >= 3
           /\ (c.pc \notin {"new", "accept", "closed"} /\ c.handled = 0) =>
                 (<<k, c.owner>> \in active /\ subs[k] = SubSet({}))

C26_Witness ==
    \E k \in Sinks :
        /\ conn[k].pc = "recv" /\ conn[k].handled = 1 /\ conn[k].mark = 3
        /\ conn[k].msg.type = "subscribe_all"
        /\ Len(outbox[k]) = 5
        /\ <<k, conn[k].owner>> \in active

\* C27: after a subscribe_sensors, subscribe_all or
\* sync_request{resource: sensors_latest} message the server sends the
\* client a ready and then a sensor_batch built under the subscription in
\* force after the message.
C27_ReadyThenBatch ==
    \A k \in Sinks :
        LET c == conn[k]
            o == outbox[k]
        IN (/\ c.pc = "recv" /\ ~c.gone /\ c.handled > 0
            /\ \/ c.msg.type \in {"subscribe_sensors", "subscribe_all"}
               \/ c.msg.type = "sync_request" /\ c.msg.ok)
           => /\ Len(o) = c.mark + 2
              /\ o[c.mark + 1].type = "ready"
              /\ o[c.mark + 2].type = "sensor_batch"
              /\ o[c.mark + 2].sub = subs[k]

\* the sensors a batch built for owner under subscription sub has to list
Visible(owner, sub) ==
    {s \in SensorIds : /\ sensors[s] = "present"
                       /\ SensorOwner[s] = owner
                       /\ (~sub.none /\ sub.ids # {}) => s \in sub.ids}

FormAt(str, i) ==
    LET a == SubSeq(str, 1, i)
        b == SubSeq(str, i + 1, Len(str))
    IN /\ a = << >> \/ (Len(a) >= 2 /\ a[Len(a)] = "s"
                          /\ \A j \in 1..(Len(a) - 1) : a[j] \in Digits)
       /\ b = << >> \/ (Len(b) >= 3 /\ b[Len(b) - 1] = "m" /\ b[Len(b)] = "s"
                          /\ \A j \in 1..(Len(b) - 2) : b[j] \in Digits)
\* s * 1000 + ms of that cut
FormValue(str, i) ==
    IntOf(SubSeq(str, 1, i - 1)) * 1000 + IntOf(SubSeq(str, i + 1, Len(str) - 2))
\* no digit of the value is followed by s or by ms
Unparseable(str) ==
    \A j \in 1..Len(str) :
        str[j] \in Digits =>
            /\ ~(j < Len(str) /\ str[j + 1] = "s")
            /\ ~(j + 1 < Len(str) /\ str[j + 1] = "m" /\ str[j + 2] = "s")
RttIs(str) == ping_call.ping_result.avg_rtt = str
LatencyIs(n) == ping_call.result_data.latency_ms = n

\* C25: for a reply whose first row has received = "1" and an avg-rtt of
\* the form <s>s<ms>ms, either group optional, latency_ms is s * 1000 + ms
\* ("2s350ms" gives 2350, "75ms" 75, "0ms" 0, "1s" 1000, a value that cannot
\* be parsed 0) and the status is high_latency exactly when latency_ms is
\* above latency_threshold_ms, ok otherwise.
C25_AvgRttParsed ==
    LET r == ping_call.ping_result
        out == ping_call.result_data
    IN (out # NoResult /\ r.rows > 0 /\ r.received = "1" /\ r.avg_rtt # NoRtt) =>
        /\ \A i \in 0..Len(r.avg_rtt) :
              FormAt(r.avg_rtt, i) => out.latency_ms = FormValue(r.avg_rtt, i)
        /\ RttIs(<<"2", "s", "3", "5", "0", "m", "s">>) => LatencyIs(2350)
        /\ RttIs(<<"7", "5", "m", "s">>) => LatencyIs(75)
        /\ RttIs(<<"0", "m", "s">>) => LatencyIs(0)
        /\ RttIs(<<"1", "s">>) => LatencyIs(1000)
        /\ Unparseable(r.avg_rtt) => LatencyIs(0)
        /\ out.status = IF out.latency_ms > ping_call.latency_threshold_visual
                        THEN "high_latency" ELSE "ok"

C25_Witness ==
    /\ ping_call.ping_result.received = "1"
    /\ RttIs(<<"7", "5", "m", "s">>)
    /\ ping_call.latency_threshold_visual = 75
    /\ ping_call.result_data = PingResult("ok", 75)

\* C39: every release_vpn(P) of a caller follows a successful
\* ensure_vpn_up(P) of that caller: a caller whose own ensure_vpn_up failed
\* does not lower P's refcount.
C39_ReleaseOnlyAfterOwnEnsure ==
    [][\A t \in TaskIds :
          (tasks[t].pc \in EnsurePcs /\ tasks'[t].pc = "failed") =>
              RefcountIn(VPN_STATE', vpnObj', tasks[t].pid)
                  = RefcountIn(VPN_STATE, vpnObj, tasks[t].pid)]_vars

\* C29: an ensure_vpn_up(P) that fails (wg-quick up fails twice, the
\* interface is not UP after the polls, or the profile does not exist)
\* returns an error to its caller, has left P's refcount unchanged and has
\* not recorded P as up.
C29_FailedEnsureLeavesRefcount ==
    \A t \in TaskIds :
        tasks[t].pc = "failed" => (~tasks[t].moved /\ ~tasks[t].acquired)

(***************************************************************************)
(* VPN profiles, monitors and sensors: properties                          *)
(***************************************************************************)
\* the profiles of tenant o that are the default
Defaults(o) ==
    {p \in VpnIds : OwnedRow(vpn_profiles, p, o) /\ vpn_profiles[p].is_default}

\* C32: for every tenant at most one VPN profile has is_default = true,
\* after any sequence of create_vpn_profile and update_vpn_profile
\* requests, also when the statements of two updates interleave.
C32_AtMostOneDefault ==
    \A o \in Tenants : Cardinality(Defaults(o)) <= 1

\* C33: no device holds the id of a profile that does not exist; a profile
\* is removed only in a step before which no device references it; and a
\* delete_vpn_profile(P) of the tenant of P that is answered while a device
\* references P is answered with an error and leaves P in the table.
C33_DeleteKeepsReferencedProfile ==
    /\ [](\A d \in DevIds :
             devices[d].row = "row" =>
                 (devices[d].vpn_profile_id = NoProfile
                     \/ vpn_profiles[devices[d].vpn_profile_id].row = "row"))
    /\ [][/\ \A p \in VpnIds :
               (vpn_profiles[p].row = "row" /\ vpn_profiles'[p].row # "row")
                   => ~VpnInUse(devices, p)
          /\ \A i \in ReqIds :
               (/\ req'[i] # req[i]
                /\ req'[i].op = "delete_vpn"
                /\ req'[i].pc = "idle"
                /\ OwnedRow(vpn_profiles, req'[i].id, req'[i].owner_id)
                /\ VpnInUse(devices, req'[i].id))
                   => /\ req'[i].status \in {400, 500}
                      /\ vpn_profiles' = vpn_profiles]_vars

\* a delete was refused by the check of the handler, and another one by the
\* foreign key after a device took the profile behind the check
C33_Witness ==
    /\ req[1].op = "delete_vpn" /\ req[1].pc = "idle" /\ req[1].status = 500
    /\ OwnedRow(vpn_profiles, req[1].id, req[1].owner_id)
    /\ VpnInUse(devices, req[1].id)
    /\ vpn_profiles[2].row = "gone"

\* C34: every sensor has the owner of its monitor and every monitor the
\* owner of its device, and a sensor row is written (created or updated)
\* only by requests of that tenant.
C34_OwnersAgree ==
    /\ \A m \in MonIds :
           monitors[m].row = "row" =>
               /\ devices[monitors[m].device_id].row = "row"
               /\ devices[monitors[m].device_id].owner_id = monitors[m].owner_id
    /\ \A s \in RowIds :
           sensor_rows[s].row = "row" =>
               /\ monitors[sensor_rows[s].monitor_id].row = "row"
               /\ monitors[sensor_rows[s].monitor_id].owner_id = sensor_rows[s].owner_id
               /\ sensor_rows[s].by = sensor_rows[s].owner_id

\* both tenants have a monitor with a sensor, a sensor was updated, and a
\* request of a tenant on the monitor of the other was answered 404
C34_Witness ==
    /\ \A s \in RowIds : sensor_rows[s].row = "row"
    /\ sensor_rows[1].owner_id # sensor_rows[2].owner_id
    /\ sensor_rows[1].name = "b"
    /\ \E i \in ReqIds :
          /\ req[i].op = "add_sensor" /\ req[i].pc = "idle" /\ req[i].status = 404
          /\ monitors[req[i].id].row = "row"
          /\ monitors[req[i].id].owner_id # req[i].owner_id

====
